---- MODULE Spec2Model ----
(***************************************************************************)
(* Receipt-Checker: the multi-provider verification pipeline.              *)
(*                                                                         *)
(* One verification call is modelled from the moment a caller invokes one  *)
(* of the exported functions (VerificationService.verifyReceipt,           *)
(* verifyByBank, or a provider verifier) until the call returns a          *)
(* VerifyResult or lets an exception escape.  Every await on the outside   *)
(* world (browser launch, navigation, HTTP GET, PDF text extraction, OCR)  *)
(* is a step whose outcome the environment chooses.                        *)
(***************************************************************************)
EXTENDS Integers, Sequences, FiniteSets, TLC

VARIABLES
    entry,          \* the exported function the caller invoked
    bank,           \* provider code of the request
    payload,        \* the VerifyPayload object handed to the entry function
    pc,             \* control position inside the call
    arg,            \* the parameters the running verifier actually received
    reference,      \* the verifier's local `reference` / `finalReference`
    browser,        \* puppeteer browser of this call: none / open / closed
    pdfUrl,         \* URL captured by the page.on("response") listener
    waited,         \* milliseconds spent in the current wait
    doc,            \* the document whose text is parsed into fields
    result,         \* the VerifyResult returned (meaningful once pc = "done")
    thrown,         \* TRUE when an exception left the entry function
    launches,       \* puppeteer.launch calls made by this request
    httpRequests,   \* axios.get calls made by this request
    fileInspected,  \* the uploaded file's text was searched for a reference
    acqRef,         \* the reference the acquisition was started with
    trace,          \* pipeline stages in the order they ran
    navigations,    \* outcomes of the page.goto attempts of safeGoto, in order
    timedOut,       \* TRUE once a wait for the download control or document expired
    parse,          \* a field parser applied to a receipt text, with its value
    calls           \* acquisition calls running concurrently, by call id

vars == <<entry, bank, payload, pc, arg, reference, browser, pdfUrl, waited,
          doc, result, thrown, launches, httpRequests, fileInspected, acqRef,
          trace, navigations, timedOut, parse, calls>>

(***************************************************************************)
(* Values                                                                  *)
(***************************************************************************)

\* JavaScript undefined / null: an absent optional property.
None == "undefined"

\* enum BankType
BankType == {"CBE", "TELEBIRR", "DASHEN", "ABYSSINIA", "MPESA"}

\* Provider codes a caller can send: the enum plus one code outside it.
BankCodes == BankType \cup {"AWASH"}

\* The canonical data fields of VerifyResult.data.
Fields == {"payer", "payerAccount", "receiver", "receiverAccount",
           "amount", "date", "reference", "reason"}

\* Uploaded files.  A file is described by what the code can observe of it:
\* whether its path exists, whether its text can be extracted, the match of
\* the provider's reference pattern in that text, and the receipt labels its
\* text carries.
FileIds == {"missing.pdf", "corrupt.pdf", "noref.pdf", "ref1.pdf", "ref2.pdf",
            "ref2-noamount.pdf"}

\* fs.existsSync(filePath)
FileExists(f) == f # "missing.pdf"

\* fs.readFileSync and the PDF text extraction do not throw.
FileReadable(f) == f \notin {"missing.pdf", "corrupt.pdf"}

FileRef(f) ==
    CASE f = "ref1.pdf" -> "R1"
      [] f = "ref2.pdf" -> "R2"
      [] f = "ref2-noamount.pdf" -> "R2"
      [] OTHER -> None

FileLabels(f) ==
    CASE f = "ref1.pdf" -> Fields
      [] f = "ref2.pdf" -> Fields
      [] f = "ref2-noamount.pdf" -> Fields \ {"amount"}
      [] OTHER -> {}

\* Documents: the text a provider (or an upload) yields, seen through the
\* field-extraction regexes.  labels = the fields whose label pattern matches,
\* dateOk = the matched date token parses to a valid Date, readable = text
\* extraction does not throw, long = the text has at least 30 characters.
DocLabelSets == {Fields} \cup {Fields \ {f} : f \in Fields}

ProviderDocs ==
    {[labels |-> L, dateOk |-> TRUE, readable |-> TRUE, long |-> TRUE] : L \in DocLabelSets}
    \cup {[labels |-> Fields, dateOk |-> FALSE, readable |-> TRUE, long |-> TRUE],
          [labels |-> {}, dateOk |-> FALSE, readable |-> TRUE, long |-> TRUE],
          [labels |-> {}, dateOk |-> FALSE, readable |-> TRUE, long |-> FALSE],
          [labels |-> {}, dateOk |-> FALSE, readable |-> FALSE, long |-> FALSE]}

NoDoc == [labels |-> {}, dateOk |-> FALSE, readable |-> FALSE, long |-> FALSE, src |-> "none"]

FromProvider(d) == [labels |-> d.labels, dateOk |-> d.dateOk, readable |-> d.readable,
                    long |-> d.long, src |-> "provider"]

FromUpload(f) == [labels |-> FileLabels(f), dateOk |-> TRUE, readable |-> FileReadable(f),
                  long |-> FileLabels(f) # {}, src |-> "upload"]

\* VerifyResult.  `error` is the message text (its fixed part), `missing` the
\* field names the message lists, data[f] what the result carries for field f:
\* "doc" = the value extracted from the parsed document, "null" = null.
NoData == [f \in Fields |-> "absent"]

Fail(msg) == [success |-> FALSE, error |-> msg, missing |-> {}, data |-> NoData]

FailMissing(msg, names) == [success |-> FALSE, error |-> msg, missing |-> names, data |-> NoData]

Success(d) == [success |-> TRUE, error |-> None, missing |-> {}, data |-> d]

NoResult == [success |-> FALSE, error |-> None, missing |-> {}, data |-> NoData]

\* What a regex capture yields for field f of document d: null when the
\* label does not match, the captured value otherwise.  A date token that
\* does not parse is carried as an Invalid Date.
Value(d, f) ==
    IF f \notin d.labels THEN "null"
    ELSE IF f = "date" /\ ~d.dateOk THEN "invalid" ELSE "doc"

\* The data object a parser builds from the fields fs it looks for.
ParsedData(d, fs) == [f \in Fields |-> IF f \in fs THEN Value(d, f) ELSE "null"]

(***************************************************************************)
(* Field parsers: the amount parsers applied to the text after a label     *)
(***************************************************************************)

\* A receipt text is a sequence of characters.
Digits == {"0", "1", "2", "3", "4", "5", "6", "7", "8", "9"}

DigitValue(c) ==
    CASE c = "0" -> 0 [] c = "1" -> 1 [] c = "2" -> 2 [] c = "3" -> 3 [] c = "4" -> 4
      [] c = "5" -> 5 [] c = "6" -> 6 [] c = "7" -> 7 [] c = "8" -> 8 [] OTHER -> 9

\* The length of the longest prefix of t whose characters are all in S: what
\* a greedy character class [S]* consumes.
RECURSIVE Leading(_, _)
Leading(t, S) ==
    IF t = <<>> \/ t[1] \notin S THEN 0 ELSE 1 + Leading(Tail(t), S)

\* The number a run of decimal digits denotes.
RECURSIVE IntOf(_)
IntOf(ds) ==
    IF ds = <<>> THEN 0 ELSE IntOf(SubSeq(ds, 1, Len(ds) - 1)) * 10 + DigitValue(ds[Len(ds)])

\* Numbers are kept in hundredths; the texts below print at most two decimals.
Hundredths(fs) ==
    (IF Len(fs) >= 1 THEN DigitValue(fs[1]) * 10 ELSE 0)
    + (IF Len(fs) >= 2 THEN DigitValue(fs[2]) ELSE 0)

\* What a parser yields for a field: a number (in hundredths), NaN, null, a
\* date <<year, month, day, hour, minute>>, an Invalid Date, an exception, or
\* the rejection of the whole receipt.  NotParsed: the parser has not run.
Number(c) == [kind |-> "number", cents |-> c, date |-> <<>>]

NaN == [kind |-> "NaN", cents |-> 0, date |-> <<>>]

Null == [kind |-> "null", cents |-> 0, date |-> <<>>]

Rejected == [kind |-> "rejected", cents |-> 0, date |-> <<>>]

Thrown == [kind |-> "throws", cents |-> 0, date |-> <<>>]

InvalidDate == [kind |-> "invalid date", cents |-> 0, date |-> <<>>]

DateOf(y, mo, d, h, mi) == [kind |-> "date", cents |-> 0, date |-> <<y, mo, d, h, mi>>]

NotParsed == [kind |-> "none", cents |-> 0, date |-> <<>>]

\* A regular expression that does not match: match() returns null.
NoMatch == <<>>

\* parseFloat: the longest prefix digits [. digits]; NaN when it has no digit.
ParseFloat(t) ==
    LET n == Leading(t, Digits)
        rest == SubSeq(t, n + 1, Len(t))
        frac == IF rest # <<>> /\ rest[1] = "." THEN Tail(rest) ELSE <<>>
        k == Leading(frac, Digits)
    IN  IF n = 0 /\ k = 0 THEN NaN
        ELSE Number(IntOf(SubSeq(t, 1, n)) * 100 + Hundredths(SubSeq(frac, 1, k)))

\* s.replace(/,/g, "")
StripCommas(t) == SelectSeq(t, LAMBDA c : c # ",")

\* s.replace(/[^\d.]/g, "")
KeepDigitsAndDots(t) == SelectSeq(t, LAMBDA c : c \in Digits \cup {"."})

\* The capture of ([\d,]+\.\d{2}) at the start of t, or NoMatch.
MatchGroupedDecimal(t) ==
    LET n == Leading(t, Digits \cup {","})
    IN  IF n >= 1 /\ Len(t) >= n + 3 /\ t[n + 1] = "."
           /\ t[n + 2] \in Digits /\ t[n + 3] \in Digits
        THEN SubSeq(t, 1, n + 3) ELSE NoMatch

\* The capture of ([0-9]+\.[0-9]{2}) at the start of t, or NoMatch.
MatchPlainDecimal(t) ==
    LET n == Leading(t, Digits)
    IN  IF n >= 1 /\ Len(t) >= n + 3 /\ t[n + 1] = "."
           /\ t[n + 2] \in Digits /\ t[n + 3] \in Digits
        THEN SubSeq(t, 1, n + 3) ELSE NoMatch

\* The capture of .*?(\d+\.\d{2}): the match at the leftmost position of t
\* that has one, or NoMatch.
MatchPlainDecimalAnywhere(t) ==
    LET starts == {i \in 1..Len(t) : MatchPlainDecimal(SubSeq(t, i, Len(t))) # NoMatch}
    IN  IF starts = {} THEN NoMatch
        ELSE MatchPlainDecimal(SubSeq(t, CHOOSE i \in starts : \A j \in starts : i <= j,
                                      Len(t)))

\* The capture of ([\d,]+\.?\d*) at the start of t, or NoMatch.
MatchGroupedNumber(t) ==
    LET n == Leading(t, Digits \cup {","})
        dot == IF Len(t) > n /\ t[n + 1] = "." THEN 1 ELSE 0
        k == Leading(SubSeq(t, n + dot + 1, Len(t)), Digits)
    IN  IF n >= 1 THEN SubSeq(t, 1, n + dot + k) ELSE NoMatch

\* The capture of (\d+(\.\d{2})?) at the leftmost digit of t, or NoMatch.
MatchFirstNumber(t) ==
    LET starts == {i \in 1..Len(t) : t[i] \in Digits}
        i0 == CHOOSE i \in starts : \A j \in starts : i <= j
        u == SubSeq(t, i0, Len(t))
        n == Leading(u, Digits)
    IN  IF starts = {} THEN NoMatch
        ELSE IF MatchPlainDecimal(u) # NoMatch THEN MatchPlainDecimal(u)
        ELSE SubSeq(u, 1, n)

\* !x for a number: true for 0 and NaN (and for null).
FalsyNumber(v) == v.kind # "number" \/ v.cents = 0

\* mpesa.verifier.ts parseMpesaPdfText: the text after "SETTLED AMOUNT".
MpesaSettledAmount(in) ==
    LET strict == MatchPlainDecimal(in.token)
        m == IF strict # NoMatch THEN strict ELSE MatchPlainDecimalAnywhere(in.token)
    IN  IF ~in.label \/ m = NoMatch THEN Null ELSE ParseFloat(m)

\* dashen.verifier.ts extractAmount: the text after "Transaction Amount".
DashenExtractAmount(in) ==
    LET m == MatchGroupedNumber(in.token)
    IN  IF ~in.label \/ m = NoMatch THEN Null
        ELSE IF ParseFloat(StripCommas(m)).kind = "NaN" THEN Null
        ELSE ParseFloat(StripCommas(m))

\* parseSlip of abyssinia.verifier.ts, part_005 and part_006: the text after
\* the amount label and "ETB".
SlipAmount(in) ==
    LET m == MatchGroupedDecimal(in.token)
    IN  IF ~in.label \/ m = NoMatch THEN Null ELSE ParseFloat(StripCommas(m))

\* telebirr.verifier.ts parseTelebirrReceipt (first version): the text of the
\* #paidAmount element; the receipt is rejected when that text is empty.
TelebirrPaidAmount(in) ==
    IF ~in.label \/ in.token = <<>> THEN Rejected
    ELSE ParseFloat(KeepDigitsAndDots(in.token))

\* telebirr.verifier.ts parseTelebirrReceipt (second version), the amount
\* found by extractWithRegex in the text after "Amount".
TelebirrRegexAmount(in) ==
    LET m == MatchFirstNumber(in.token)
        amount == ParseFloat(KeepDigitsAndDots(m))
    IN  IF ~in.label \/ m = NoMatch THEN Rejected
        ELSE IF FalsyNumber(amount) THEN Rejected ELSE amount

\* abyssinia.verifier.ts verifyAbyssinia (the API reader): the value of
\* "Transferred Amount"; a falsy amount fails the result.
AbyssiniaApiAmount(in) ==
    LET amount == ParseFloat(KeepDigitsAndDots(IF in.label THEN in.token ELSE <<>>))
    IN  IF FalsyNumber(amount) THEN Rejected ELSE amount

\* part_007 verifyAbyssinia: the text of the cell after "Transferred amount",
\* "0" when there is none, and then `|| 0`.
Part007TransferredAmount(in) ==
    LET text == IF in.label /\ in.token # <<>> THEN in.token ELSE <<"0">>
        amount == ParseFloat(KeepDigitsAndDots(text))
    IN  IF FalsyNumber(amount) THEN Number(0) ELSE amount

\* part_010 parseMpesaPdfText: the text after "SETTLED AMOUNT", "0" when the
\* pattern does not match.
Part010SettledAmount(in) ==
    LET m == MatchGroupedDecimal(in.token)
    IN  IF ~in.label \/ m = NoMatch THEN Number(0) ELSE ParseFloat(StripCommas(m))

(***************************************************************************)
(* Field parsers: the date parsers applied to the text after the label     *)
(***************************************************************************)

\* The pattern (\d{2})\/(\d{2})\/(\d{2}) (\d{2}):(\d{2}) matches t at position i.
DatePatternAt(t, i) ==
    /\ Len(t) >= i + 13
    /\ \A k \in {0, 1, 3, 4, 6, 7, 9, 10, 12, 13} : t[i + k] \in Digits
    /\ t[i + 2] = "/"
    /\ t[i + 5] = "/"
    /\ t[i + 8] = " "
    /\ t[i + 11] = ":"

\* part_006 parseTransactionDate: the groups of the leftmost match are bound
\* in the order [_, yy, mm, dd, hh, min], and the date is
\* new Date(2000 + yy, mm - 1, dd, hh, min).
Part006ParseTransactionDate(in) ==
    LET starts == {i \in 1..Len(in.token) : DatePatternAt(in.token, i)}
        i0 == CHOOSE i \in starts : \A j \in starts : i <= j
        group(k) == IntOf(SubSeq(in.token, i0 + k, i0 + k + 1))
    IN  IF ~in.label \/ starts = {} THEN Null
        ELSE DateOf(2000 + group(0), group(3), group(6), group(9), group(12))

\* s.split(sep): the pieces of s between the occurrences of sep.
RECURSIVE Split(_, _)
Split(s, sep) ==
    LET hits == {i \in 1..Len(s) : s[i] = sep}
        i0 == CHOOSE i \in hits : \A j \in hits : i <= j
    IN  IF hits = {} THEN <<s>>
        ELSE <<SubSeq(s, 1, i0 - 1)>> \o Split(SubSeq(s, i0 + 1, Len(s)), sep)

\* Number(s) is a number for a run of digits (0 for the empty string) and
\* NaN for any other text the date cells below hold.
IsNumeric(s) == \A i \in 1..Len(s) : s[i] \in Digits

\* part_005 verifyAbyssinia (the page reader): the date cell is split at "/"
\* into [day, month, yearHour], yearHour at " " into [year, time], time at
\* ":" into [hour, minute]; the date is new Date(Number("20" + year),
\* Number(month) - 1, Number(day), Number(hour), Number(minute)).  A missing
\* piece is undefined: calling split on it throws, Number of it is NaN.  An
\* empty cell is reported as a missing field.
Part005SplitDate(in) ==
    LET parts == Split(in.token, "/")
        yearHour == Split(parts[3], " ")
        time == Split(yearHour[2], ":")
    IN  IF ~in.label \/ in.token = <<>> THEN Rejected
        ELSE IF Len(parts) < 3 THEN Thrown
        ELSE IF Len(yearHour) < 2 THEN Thrown
        ELSE IF Len(time) < 2 THEN InvalidDate
        ELSE IF ~(IsNumeric(yearHour[1]) /\ IsNumeric(parts[2]) /\ IsNumeric(parts[1])
                  /\ IsNumeric(time[1]) /\ IsNumeric(time[2]))
        THEN InvalidDate
        ELSE DateOf(IntOf(<<"2", "0">> \o yearHour[1]), IntOf(parts[2]), IntOf(parts[1]),
                    IntOf(time[1]), IntOf(time[2]))

(***************************************************************************)
(* Receipt texts handed to the field parsers                               *)
(***************************************************************************)

\* The texts that follow an amount label: printed amounts with and without
\* thousands separators, a whole number, a text with a currency prefix, a
\* text that holds no number, and the empty text.
PrintedAmounts ==
    {<<"1", ",", "2", "3", "4", ".", "5", "0">>,
     <<"1", "2", "3", "4", ".", "5", "0">>,
     <<"1", ",", "0", "0", "0", ".", "0", "0">>,
     <<"1", "0", "0", "0", ".", "0", "0">>,
     <<"5", "0", ".", "0", "0">>}

AmountTokens ==
    PrintedAmounts
    \cup {<<"0", ".", "0", "0">>,
          <<"1", "2">>,
          <<"E", "T", "B", " ", "5", "0", ".", "0", "0">>,
          <<"N", "/", "A">>,
          <<>>}

AmountTexts ==
    {[label |-> TRUE, token |-> t] : t \in AmountTokens}
    \cup {[label |-> FALSE, token |-> <<>>]}

DigitChar(n) ==
    CASE n = 0 -> "0" [] n = 1 -> "1" [] n = 2 -> "2" [] n = 3 -> "3" [] n = 4 -> "4"
      [] n = 5 -> "5" [] n = 6 -> "6" [] n = 7 -> "7" [] n = 8 -> "8" [] OTHER -> "9"

TwoDigits(n) == <<DigitChar(n \div 10), DigitChar(n % 10)>>

\* A date printed as day/month/2-digit-year hour:minute.
PrintedDate(d, mo, yy, h, mi) ==
    TwoDigits(d) \o <<"/">> \o TwoDigits(mo) \o <<"/">> \o TwoDigits(yy) \o <<" ">>
    \o TwoDigits(h) \o <<":">> \o TwoDigits(mi)

\* Days, months and years of the printed dates.  Every number is a valid day
\* of every month, so that no Date constructor call below rolls a field over.
PrintedDays == {1, 24}

PrintedMonths == {2, 12}

PrintedYears == {24, 25}

PrintedHours == {10}

PrintedMinutes == {5, 30}

DateTokens ==
    {PrintedDate(d, mo, yy, h, mi) :
       d \in PrintedDays, mo \in PrintedMonths, yy \in PrintedYears,
       h \in PrintedHours, mi \in PrintedMinutes}
    \cup {<<"2", "0", "2", "4", "-", "0", "2", "-", "0", "1">>,
          <<"0", "1", "/", "0", "2", "/", "2", "4">>,
          <<>>}

DateTexts ==
    {[label |-> TRUE, token |-> t] : t \in DateTokens}
    \cup {[label |-> FALSE, token |-> <<>>]}

AmountParsers ==
    {"parseMpesaPdfText.amount", "extractAmount", "parseSlip.amount",
     "parseTelebirrReceipt.amount", "extractWithRegex.amount",
     "verifyAbyssinia.transferredAmount", "part_007.transferredAmount",
     "part_010.parseMpesaPdfText.amount"}

DateParsers == {"parseTransactionDate", "part_005.transactionDate"}

\* No field parser is applied during a verification call.
NoParse == [fn |-> "none", text |-> [label |-> FALSE, token |-> <<>>], value |-> NotParsed]

(***************************************************************************)
(* Requests                                                                *)
(***************************************************************************)

NoPayload == [reference |-> None, accountSuffix |-> None, pdfBuffer |-> None,
              fileBuffer |-> None, filePath |-> None, fileType |-> None]

\* Every payload with an optional reference, an optional suffix and at most
\* one uploaded file, which sits in one or more of the file properties in
\* slots (1 = pdfBuffer, 2 = fileBuffer, 3 = filePath).  A file that does not
\* exist can only be named by a path.
PayloadsOver(slots, types) ==
    {[reference |-> r, accountSuffix |-> s, pdfBuffer |-> pb, fileBuffer |-> fb,
      filePath |-> fp, fileType |-> t] :
        r \in {None, "", "R1"}, s \in {None, "S1"}, pb \in {None}, fb \in {None},
        fp \in {None}, t \in types}
    \cup
    {q \in
       {[reference |-> r, accountSuffix |-> s,
         pdfBuffer |-> IF 1 \in w THEN f ELSE None,
         fileBuffer |-> IF 2 \in w THEN f ELSE None,
         filePath |-> IF 3 \in w THEN f ELSE None, fileType |-> t] :
           r \in {None, "", "R1"}, s \in {None, "S1"}, f \in FileIds,
           w \in (SUBSET slots) \ {{}}, t \in types} :
       FileExists(q.pdfBuffer) /\ FileExists(q.fileBuffer)}

Payloads == PayloadsOver({1, 2, 3}, {None})

HasFile(p) == p.pdfBuffer # None \/ p.fileBuffer # None \/ p.filePath # None

\* The file of a payload (the payloads above carry at most one).
FileOf(p) ==
    IF p.pdfBuffer # None THEN p.pdfBuffer
    ELSE IF p.fileBuffer # None THEN p.fileBuffer ELSE p.filePath

\* The exported functions a caller can invoke: the service, the dispatcher,
\* and the provider verifiers with the parameters each one reads.
PipelineEntries == {"verifyReceipt", "verifyByBank"}

EntryBank(e) ==
    CASE e \in {"verifyCBE", "part_012.verifyCBE", "part_012.verifyCBE.legacy"} -> "CBE"
      [] e \in {"verifyTelebirr", "service.verifyTelebirr"} -> "TELEBIRR"
      [] e = "verifyDashen" -> "DASHEN"
      [] e = "verifyMPesa" -> "MPESA"
      [] OTHER -> "ABYSSINIA"

EntryPayloads(e) ==
    CASE e = "verifyCBE" -> PayloadsOver({1}, {None})
      [] e = "verifyTelebirr" -> PayloadsOver({1}, {None})
      [] e = "service.verifyTelebirr" -> PayloadsOver({2}, {None})
      [] e = "verifyDashen" -> PayloadsOver({2, 3}, {None})
      [] e = "verifyMPesa" -> PayloadsOver({2, 3}, {None})
      [] e = "verifyAbyssinia" -> PayloadsOver({3}, {None})
      [] e = "part_012.verifyCBE" -> PayloadsOver({1}, {None, "pdf", "image"})
      [] e = "part_012.verifyCBE.legacy" -> PayloadsOver({}, {None})
      [] e = "part_005.verifyAbyssinia" -> PayloadsOver({3}, {None})
      [] e = "part_005.verifyAbyssinia.page" -> PayloadsOver({}, {None})
      [] e = "part_006.verifyAbyssinia" -> PayloadsOver({2, 3}, {None, "pdf", "image"})
      [] e = "part_007.verifyAbyssinia" -> PayloadsOver({}, {None})
      [] e = "logger.verifyAbyssinia" -> PayloadsOver({}, {None})
      [] OTHER -> {}

VerifierEntries == {"verifyCBE", "verifyMPesa", "verifyDashen", "verifyAbyssinia",
                    "verifyTelebirr", "service.verifyTelebirr",
                    "part_012.verifyCBE", "part_012.verifyCBE.legacy",
                    "part_005.verifyAbyssinia", "part_005.verifyAbyssinia.page",
                    "part_006.verifyAbyssinia", "part_007.verifyAbyssinia",
                    "logger.verifyAbyssinia"}

\* No concurrent acquisition calls run during a single verification call.
NoCalls == <<>>

Start(e, b, p) ==
    /\ entry = e
    /\ bank = b
    /\ payload = p
    /\ pc = e
    /\ arg = p
    /\ reference = None
    /\ browser = "none"
    /\ pdfUrl = None
    /\ waited = 0
    /\ doc = NoDoc
    /\ result = NoResult
    /\ thrown = FALSE
    /\ launches = 0
    /\ httpRequests = 0
    /\ fileInspected = FALSE
    /\ acqRef = None
    /\ trace = <<>>
    /\ navigations = <<>>
    /\ timedOut = FALSE
    /\ parse = NoParse
    /\ calls = NoCalls

\* The requests VerificationController.verify receives: req.body.bank,
\* req.body.reference, req.body.accountSuffix and req.file, whose bytes multer
\* keeps in memory.
ControllerRequests ==
    [bank : BankCodes \cup {None}, reference : {None, "", "R1"},
     accountSuffix : {None, "S1"}, file : {None} \cup {f \in FileIds : FileExists(f)}]

\* The controller is invoked with request r; it has built no payload yet.
StartController(r) ==
    /\ entry = "verify"
    /\ bank = r.bank
    /\ payload = NoPayload
    /\ pc = "verify"
    /\ arg = r
    /\ reference = None
    /\ browser = "none"
    /\ pdfUrl = None
    /\ waited = 0
    /\ doc = NoDoc
    /\ result = NoResult
    /\ thrown = FALSE
    /\ launches = 0
    /\ httpRequests = 0
    /\ fileInspected = FALSE
    /\ acqRef = None
    /\ trace = <<>>
    /\ navigations = <<>>
    /\ timedOut = FALSE
    /\ parse = NoParse
    /\ calls = NoCalls

\* The largest retries argument safeGoto is called with.
MaxRetriesArgument == 3

\* The parameters of a direct call safeGoto(page, url, retries).
SafeGotoArguments == {NoPayload @@ [retries |-> r] : r \in 0..MaxRetriesArgument}

Init ==
    \/ \E e \in PipelineEntries, b \in BankCodes, p \in Payloads : Start(e, b, p)
    \/ \E a \in SafeGotoArguments : Start("safeGoto", "ABYSSINIA", a)
    \/ \E r \in ControllerRequests : StartController(r)
    \/ \E e \in VerifierEntries : \E p \in EntryPayloads(e) : Start(e, EntryBank(e), p)

(***************************************************************************)
(* JavaScript semantics used by the code                                   *)
(***************************************************************************)

\* !v is true for undefined, null and the empty string.
Falsy(v) == v \in {None, ""}

Truthy(v) == ~Falsy(v)

\* The object literal a caller passes where a function declares positional
\* string parameters: it is a truthy value bound to the first parameter.
ObjectValue == "[object Object]"

\* Reading properties of a string primitive (a function that declares an
\* object parameter but is handed payload.reference): every property the
\* verifiers read is undefined.
PropertiesOfString == NoPayload

(***************************************************************************)
(* Steps of a call                                                         *)
(***************************************************************************)

\* return r with the call's browser in state b, after the stages ev.
Return(r, b, ev) ==
    /\ result' = r
    /\ browser' = b
    /\ pc' = "done"
    /\ trace' = trace \o ev

\* Continue at label l after the stages ev.
Goto(l, ev) ==
    /\ pc' = l
    /\ trace' = trace \o ev

(***************************************************************************)
(* VerificationController.verify                                           *)
(***************************************************************************)

\* A controller whose list of supported banks holds a code the service's
\* switch has no case for.
ControllerSupportsMore(b) == b \in BankCodes

\* Object.values(BankType).includes(bank)
ControllerSupports(b) == b \in BankType

\* The message the controller answers with before it calls the service, or
\* None when it goes on.
ControllerCheck(r) ==
    IF Falsy(r.bank) THEN "Bank is required"
    ELSE IF ~ControllerSupports(r.bank) THEN "Bank is not supported"
    ELSE IF Falsy(r.file) /\ (Falsy(r.reference) \/ Falsy(r.accountSuffix))
    THEN "Provide PDF file or reference with account suffix"
    ELSE IF Falsy(r.accountSuffix) THEN "accountSuffix is required"
    ELSE None

\* The payload the controller hands to verifyReceipt: the file's bytes in
\* pdfBuffer with fileType "pdf" when a file was uploaded, the reference
\* otherwise; the account suffix in both cases.
ControllerPayload(r) ==
    IF Truthy(r.file)
    THEN [NoPayload EXCEPT !.pdfBuffer = r.file, !.fileType = "pdf",
                           !.accountSuffix = r.accountSuffix]
    ELSE [NoPayload EXCEPT !.reference = r.reference, !.accountSuffix = r.accountSuffix]

Verify ==
    /\ pc = "verify"
    /\ IF ControllerCheck(arg) # None
       THEN /\ Return(Fail(ControllerCheck(arg)), browser, <<"validate", "error">>)
            /\ UNCHANGED <<payload, arg>>
       ELSE /\ Goto("verifyReceipt", <<"validate">>)
            /\ payload' = ControllerPayload(arg)
            /\ arg' = ControllerPayload(arg)
            /\ UNCHANGED <<result, browser>>
    /\ UNCHANGED <<parse, calls, navigations, timedOut>>
    /\ UNCHANGED <<entry, bank, reference, pdfUrl, waited, doc, thrown, launches,
                   httpRequests, fileInspected, acqRef>>

(***************************************************************************)
(* VerificationService.verifyReceipt                                       *)
(***************************************************************************)

\* The switch over the bank: the error it returns, or None when it breaks.
ServiceCheck(b, p) ==
    CASE b = "CBE" ->
           IF Falsy(p.fileBuffer) /\ (Falsy(p.reference) \/ Falsy(p.accountSuffix))
           THEN "Provide PDF file or reference with account suffix" ELSE None
      [] b = "TELEBIRR" ->
           IF Falsy(p.reference) /\ Falsy(p.pdfBuffer)
           THEN "Provide transaction reference or receipt file" ELSE None
      [] b = "ABYSSINIA" ->
           IF Falsy(p.accountSuffix) THEN "Account suffix is required for Abyssinia"
           ELSE IF Falsy(p.reference) /\ Falsy(p.pdfBuffer)
           THEN "Provide transaction reference or receipt file" ELSE None
      [] b = "DASHEN" ->
           IF Falsy(p.reference) /\ Falsy(p.pdfBuffer)
           THEN "Provide transaction reference or receipt file" ELSE None
      [] b = "MPESA" ->
           IF Falsy(p.reference) /\ Falsy(p.fileBuffer) /\ Falsy(p.filePath)
           THEN "Provide transaction reference or receipt file" ELSE None
      [] OTHER -> "Unsupported bank"

VerifyReceipt ==
    /\ pc = "verifyReceipt"
    /\ IF ServiceCheck(bank, payload) # None
       THEN Return(Fail(ServiceCheck(bank, payload)), browser, <<"validate", "error">>)
       ELSE /\ Goto("verifyByBank", <<"validate">>)
            /\ UNCHANGED <<result, browser>>
    /\ UNCHANGED <<parse, calls, navigations, timedOut>>
    /\ UNCHANGED <<entry, bank, payload, arg, reference, pdfUrl, waited, doc, thrown,
                   launches, httpRequests, fileInspected, acqRef>>

(***************************************************************************)
(* verifyByBank                                                            *)
(***************************************************************************)

\* A dispatcher whose switch has no default branch.
DispatchCheckNoDefault(b, p) ==
    CASE b = "TELEBIRR" ->
           IF Falsy(p.reference) THEN "Reference is required for Telebirr" ELSE None
      [] b = "ABYSSINIA" ->
           IF Falsy(p.accountSuffix) THEN "Account suffix is required for Abyssinia"
           ELSE IF Falsy(p.reference) /\ Falsy(p.pdfBuffer)
           THEN "Provide transaction reference or receipt file" ELSE None
      [] b = "DASHEN" ->
           IF Falsy(p.reference) THEN "Reference is required for Dashen" ELSE None
      [] b = "MPESA" ->
           IF Falsy(p.reference) /\ Falsy(p.fileBuffer) /\ Falsy(p.filePath)
           THEN "Reference or file is required for MPESA" ELSE None
      [] OTHER -> None

\* The error verifyByBank itself returns for bank b, or None when it calls
\* the provider's verifier.
DispatchCheck(b, p) ==
    CASE b = "CBE" -> None
      [] b = "TELEBIRR" ->
           IF Falsy(p.reference) THEN "Reference is required for Telebirr" ELSE None
      [] b = "ABYSSINIA" ->
           IF Falsy(p.accountSuffix) THEN "Account suffix is required for Abyssinia"
           ELSE IF Falsy(p.reference) /\ Falsy(p.pdfBuffer)
           THEN "Provide transaction reference or receipt file" ELSE None
      [] b = "DASHEN" ->
           IF Falsy(p.reference) THEN "Reference is required for Dashen" ELSE None
      [] b = "MPESA" ->
           IF Falsy(p.reference) /\ Falsy(p.fileBuffer) /\ Falsy(p.filePath)
           THEN "Reference or file is required for MPESA" ELSE None
      [] OTHER -> "Unsupported bank: "

\* The verifier verifyByBank calls for bank b.
DispatchTarget(b) ==
    CASE b = "CBE" -> "verifyCBE"
      [] b = "TELEBIRR" -> "verifyTelebirr"
      [] b = "ABYSSINIA" -> "verifyAbyssinia"
      [] b = "DASHEN" -> "verifyDashen"
      [] b = "MPESA" -> "verifyMPesa"
      [] OTHER -> "done"

\* What the called verifier's parameters hold.  verifyCBE and verifyMPesa get
\* the payload object.  verifyTelebirr and verifyDashen declare an object
\* parameter and are handed payload.reference, a string.  verifyAbyssinia
\* declares (reference, accountSuffix, filePath) and is handed one object
\* literal, which binds to `reference`; the other two stay undefined.
DispatchArgs(b, p) ==
    CASE b = "CBE" -> p
      [] b = "MPESA" -> p
      [] b = "ABYSSINIA" -> [NoPayload EXCEPT !.reference = ObjectValue]
      [] OTHER -> PropertiesOfString

VerifyByBank ==
    /\ pc = "verifyByBank"
    /\ IF DispatchCheck(bank, payload) # None
       THEN /\ Return(Fail(DispatchCheck(bank, payload)), browser, <<"validate", "error">>)
            /\ arg' = arg
       ELSE /\ Goto(DispatchTarget(bank), <<"validate">>)
            /\ arg' = DispatchArgs(bank, payload)
            /\ UNCHANGED <<result, browser>>
    /\ UNCHANGED <<parse, calls, navigations, timedOut>>
    /\ UNCHANGED <<entry, bank, payload, reference, pdfUrl, waited, doc, thrown,
                   launches, httpRequests, fileInspected, acqRef>>

(***************************************************************************)
(* Exceptions                                                              *)
(***************************************************************************)

\* Messages of the errors puppeteer, axios and the PDF libraries raise; an
\* Error may carry an empty message.
EnvMessages == {"net::ERR_FAILED", ""}

\* err.message || fallback
MessageOr(m, fallback) == IF Falsy(m) THEN fallback ELSE m

(***************************************************************************)
(* cbe.verifier.ts: verifyCBE, fetchCBEReceiptPdf, parseCBEReceipt         *)
(***************************************************************************)

\* else if (payload.reference && payload.accountSuffix)
CBEByReferenceNoSuffix(p) == Truthy(p.reference)

CBEByReference(p) == Truthy(p.reference) /\ Truthy(p.accountSuffix)

VerifyCBE ==
    /\ pc = "verifyCBE"
    /\ IF Truthy(arg.pdfBuffer)
       THEN /\ Goto("parseCBEReceipt", <<"validate">>)
            /\ doc' = FromUpload(arg.pdfBuffer)
            /\ UNCHANGED <<result, browser, reference, acqRef>>
       ELSE IF CBEByReference(arg)
       THEN /\ Goto("fetchCBEReceiptPdf", <<"validate">>)
            /\ reference' = arg.reference
            /\ acqRef' = arg.reference
            /\ UNCHANGED <<result, browser, doc>>
       ELSE /\ Return(Fail("No PDF or reference provided"), browser, <<"validate", "error">>)
            /\ UNCHANGED <<doc, reference, acqRef>>
    /\ UNCHANGED <<parse, calls, navigations, timedOut>>
    /\ UNCHANGED <<entry, bank, payload, arg, pdfUrl, waited, thrown, launches,
                   httpRequests, fileInspected>>

\* let pdfResponse: HTTPResponse | null = null; no statement assigns it.
pdfResponse == None

CBENotAccessible == "Receipt PDF not accessible. Reference may be invalid, expired, or blocked."

\* The catch of verifyCBE.
CBECaught(m) == Fail(MessageOr(m, "CBE verification failed"))

FetchCBEReceiptPdf ==
    /\ pc = "fetchCBEReceiptPdf"
    /\ launches' = launches + 1
    /\ \E o \in {"launch throws", "goto throws", "loaded"}, m \in EnvMessages,
          u \in {None, "pdf-url"}, dl \in {"throws", "not pdf", "pdf"}, d \in ProviderDocs :
         LET captured == o = "loaded" /\ Truthy(pdfResponse) /\ Truthy(u)
         IN  /\ pdfUrl' = IF o = "loaded" THEN u ELSE None
             /\ httpRequests' = IF captured THEN httpRequests + 1 ELSE httpRequests
             /\ doc' = IF captured /\ dl = "pdf" THEN FromProvider(d) ELSE doc
             /\ CASE o = "launch throws" ->
                       Return(CBECaught(m), "none", <<"acquire", "error">>)
                  [] o = "goto throws" ->
                       Return(CBECaught(m), "closed", <<"acquire", "error">>)
                  [] o = "loaded" /\ ~captured ->
                       Return(Fail(CBENotAccessible), "closed", <<"acquire", "error">>)
                  [] captured /\ dl = "throws" ->
                       Return(CBECaught(m), "closed", <<"acquire", "error">>)
                  [] captured /\ dl = "not pdf" ->
                       Return(Fail("Downloaded file is not a valid PDF"), "closed",
                              <<"acquire", "error">>)
                  [] OTHER ->
                       /\ Goto("parseCBEReceipt", <<"acquire">>)
                       /\ browser' = "closed"
                       /\ result' = result
    /\ UNCHANGED <<parse, calls, navigations, timedOut>>
    /\ UNCHANGED <<entry, bank, payload, arg, reference, waited, thrown, fileInspected,
                   acqRef>>

CBEMandatory == {"payer", "receiver", "payerAccount", "receiverAccount", "amount",
                 "reference", "date"}

CBEFieldsIncomplete == "Failed to extract required fields from CBE receipt"

ParseCBEReceiptResult(d) ==
    IF ~d.readable THEN Fail("PDF parsing failed")
    ELSE IF ~(CBEMandatory \subseteq d.labels) THEN Fail(CBEFieldsIncomplete)
    ELSE IF ~d.dateOk THEN Fail("Invalid date format in receipt")
    ELSE Success(ParsedData(d, Fields))

\* The stages parseCBEReceipt went through before it returned.
ParseCBEReceiptStages(d) ==
    IF ~d.readable THEN <<"extract", "error">>
    ELSE IF ~(CBEMandatory \subseteq d.labels) THEN <<"extract", "fields", "error">>
    ELSE IF ~d.dateOk THEN <<"extract", "fields", "normalize", "error">>
    ELSE <<"extract", "fields", "normalize">>

ParseCBEReceipt ==
    /\ pc = "parseCBEReceipt"
    /\ Return(ParseCBEReceiptResult(doc), browser, ParseCBEReceiptStages(doc))
    /\ UNCHANGED <<parse, calls, navigations, timedOut>>
    /\ UNCHANGED <<entry, bank, payload, arg, reference, pdfUrl, waited, doc, thrown,
                   launches, httpRequests, fileInspected, acqRef>>

(***************************************************************************)
(* mpesa.verifier.ts: verifyMPesa, fetchMpesaPdf, parseMpesaPdfText        *)
(***************************************************************************)

\* The file verifyMPesa reads: input.fileBuffer, else input.filePath.
MpesaFile(p) == IF Truthy(p.fileBuffer) THEN p.fileBuffer ELSE p.filePath

\* The catch of verifyMPesa.
MpesaCaught(m) == Fail(MessageOr(m, "MPESA verification failed"))

\* A variant that swallows a failed text extraction of the upload and goes on
\* with the caller's reference.
VerifyMPesaResolveResuming(p, m) ==
    IF Truthy(p.fileBuffer) \/ Truthy(p.filePath)
    THEN IF ~FileReadable(MpesaFile(p))
         THEN IF Truthy(p.reference)
              THEN [ok |-> TRUE, result |-> NoResult, reference |-> p.reference,
                    stages |-> <<"resolve", "error", "validate">>]
              ELSE [ok |-> FALSE, result |-> MpesaCaught(m), reference |-> p.reference,
                    stages |-> <<"resolve", "error">>]
         ELSE IF Falsy(FileRef(MpesaFile(p))) /\ Falsy(p.reference)
         THEN [ok |-> FALSE, result |-> Fail("Transaction reference not found in file"),
               reference |-> p.reference, stages |-> <<"resolve", "error">>]
         ELSE [ok |-> TRUE, result |-> NoResult,
               reference |-> IF Truthy(FileRef(MpesaFile(p))) THEN FileRef(MpesaFile(p))
                             ELSE p.reference,
               stages |-> <<"resolve", "validate">>]
    ELSE IF Falsy(p.reference)
    THEN [ok |-> FALSE, result |-> Fail("Transaction reference or file is required"),
          reference |-> p.reference, stages |-> <<"validate", "error">>]
    ELSE [ok |-> TRUE, result |-> NoResult, reference |-> p.reference,
          stages |-> <<"validate">>]

\* verifyMPesa up to the call of fetchMpesaPdf: whether it goes on, the result
\* it returns otherwise, the local `reference`, and the stages it ran.  m is
\* the message of the error the text extraction throws on an unreadable file.
VerifyMPesaResolve(p, m) ==
    IF Truthy(p.fileBuffer) \/ Truthy(p.filePath)
    THEN IF ~FileReadable(MpesaFile(p))
         THEN [ok |-> FALSE, result |-> MpesaCaught(m), reference |-> p.reference,
               stages |-> <<"resolve", "error">>]
         ELSE IF Falsy(FileRef(MpesaFile(p))) /\ Falsy(p.reference)
         THEN [ok |-> FALSE, result |-> Fail("Transaction reference not found in file"),
               reference |-> p.reference, stages |-> <<"resolve", "error">>]
         ELSE [ok |-> TRUE, result |-> NoResult,
               reference |-> IF Truthy(FileRef(MpesaFile(p))) THEN FileRef(MpesaFile(p))
                             ELSE p.reference,
               stages |-> <<"resolve", "validate">>]
    ELSE IF Falsy(p.reference)
    THEN [ok |-> FALSE, result |-> Fail("Transaction reference or file is required"),
          reference |-> p.reference, stages |-> <<"validate", "error">>]
    ELSE [ok |-> TRUE, result |-> NoResult, reference |-> p.reference,
          stages |-> <<"validate">>]

VerifyMPesa ==
    /\ pc = "verifyMPesa"
    /\ \E m \in EnvMessages :
         LET r == VerifyMPesaResolve(arg, m)
         IN  /\ reference' = r.reference
             /\ IF r.ok
                THEN /\ Goto("fetchMpesaPdf", r.stages)
                     /\ acqRef' = r.reference
                     /\ UNCHANGED <<result, browser>>
                ELSE /\ Return(r.result, browser, r.stages)
                     /\ acqRef' = acqRef
    /\ fileInspected' = (Truthy(arg.fileBuffer) \/ Truthy(arg.filePath))
    /\ UNCHANGED <<parse, calls, navigations, timedOut>>
    /\ UNCHANGED <<entry, bank, payload, arg, pdfUrl, waited, doc, thrown, launches,
                   httpRequests>>

\* while (!pdfUrl && Date.now() - start < 15000)
PollTimeoutMs == 15000

\* await new Promise((r) => setTimeout(r, 500))
PollIntervalMs == 500

\* puppeteer.launch, newPage, page.on("response"), page.goto.  No try/finally
\* encloses them: an exception after the launch leaves the browser open.
FetchMpesaPdf ==
    /\ pc = "fetchMpesaPdf"
    /\ launches' = launches + 1
    /\ waited' = 0
    /\ \E o \in {"launch throws", "goto throws", "loaded"}, m \in EnvMessages,
          u \in {None, "pdf-url"} :
         /\ pdfUrl' = IF o = "loaded" THEN u ELSE None
         /\ CASE o = "launch throws" ->
                   Return(MpesaCaught(m), "none", <<"acquire", "error">>)
              [] o = "goto throws" ->
                   Return(MpesaCaught(m), "open", <<"acquire", "error">>)
              [] OTHER ->
                   /\ Goto("fetchMpesaPdf.poll", <<"acquire">>)
                   /\ browser' = "open"
                   /\ result' = result
    /\ UNCHANGED <<parse, calls, navigations, timedOut>>
    /\ UNCHANGED <<entry, bank, payload, arg, reference, doc, thrown, httpRequests,
                   fileInspected, acqRef>>

\* A caller that starts the acquisition again at retryAt when the detection
\* timed out.
DetectionTimeoutRetries(retryAt) == retryAt

\* Where the call continues when a detection timed out: the error is thrown
\* to the catch of the verifier, which returns; nothing leads back to retryAt.
AfterDetectionTimeout(retryAt) == "done"

\* One turn of the polling loop, or the statements after it: browser.close()
\* and the check of pdfUrl.  The wait is over then, and its clock is dropped.
FetchMpesaPdfPoll ==
    /\ pc = "fetchMpesaPdf.poll"
    /\ IF Falsy(pdfUrl) /\ waited < PollTimeoutMs
       THEN /\ waited' = waited + PollIntervalMs
            /\ \E u \in {None, "pdf-url"} : pdfUrl' = u
            /\ UNCHANGED <<pc, trace, browser, result>>
       ELSE /\ waited' = 0
            /\ pdfUrl' = pdfUrl
            /\ IF Falsy(pdfUrl)
               THEN /\ result' = Fail("PDF not generated from M-PESA page")
                    /\ browser' = "closed"
                    /\ pc' = AfterDetectionTimeout("fetchMpesaPdf")
                    /\ trace' = trace \o <<"error">>
               ELSE /\ Goto("fetchMpesaPdf.get", <<>>)
                    /\ browser' = "closed"
                    /\ result' = result
    /\ timedOut' = (Falsy(pdfUrl) /\ waited >= PollTimeoutMs)
    /\ UNCHANGED <<parse, calls, navigations>>
    /\ UNCHANGED <<entry, bank, payload, arg, reference, doc, thrown, launches,
                   httpRequests, fileInspected, acqRef>>

MpesaFields == Fields

\* parseMpesaPdfText returns success: true whatever matched.  Without a name
\* label the payer is the placeholder "M-PESA User" once a phone number is found.
ParseMpesaPdfText(d) ==
    Success([ParsedData(d, MpesaFields) EXCEPT
               !.payer = IF "payer" \in d.labels THEN "doc"
                         ELSE IF "payerAccount" \in d.labels THEN "placeholder"
                         ELSE "null"])

\* axios.get(pdfUrl), then in verifyMPesa the text extraction and the parse.
FetchMpesaPdfGet ==
    /\ pc = "fetchMpesaPdf.get"
    /\ httpRequests' = httpRequests + 1
    /\ \E o \in {"get throws", "response"}, m \in EnvMessages, d \in ProviderDocs :
         /\ doc' = IF o = "response" THEN FromProvider(d) ELSE doc
         /\ CASE o = "get throws" -> Return(MpesaCaught(m), browser, <<"error">>)
              [] o = "response" /\ ~d.readable ->
                   Return(MpesaCaught(m), browser, <<"extract", "error">>)
              [] OTHER ->
                   Return(ParseMpesaPdfText(d), browser, <<"extract", "fields", "normalize">>)
    /\ UNCHANGED <<parse, calls, navigations, timedOut>>
    /\ UNCHANGED <<entry, bank, payload, arg, reference, pdfUrl, waited, thrown, launches,
                   fileInspected, acqRef>>

(***************************************************************************)
(* Exceptions that leave the entry function                                *)
(***************************************************************************)

\* An exception no handler of the call catches reaches the caller.
Throw(b, ev) ==
    /\ thrown' = TRUE
    /\ result' = result
    /\ browser' = b
    /\ pc' = "done"
    /\ trace' = trace \o ev

(***************************************************************************)
(* dashen.verifier.ts: verifyDashen, extractTransactionReference,          *)
(* parseDashenReceipt                                                      *)
(***************************************************************************)

\* The file verifyDashen reads: input.fileBuffer, else input.filePath.
DashenFile(p) == IF Truthy(p.fileBuffer) THEN p.fileBuffer ELSE p.filePath

\* extractTransactionReference: the first match of the pattern, null when
\* there is none or when reading the file's text throws.
ExtractTransactionReference(f) == IF FileReadable(f) THEN FileRef(f) ELSE None

\* verifyDashen up to the axios.get.
VerifyDashenResolve(p) ==
    IF Truthy(p.reference)
    THEN [ok |-> TRUE, result |-> NoResult, reference |-> p.reference,
          stages |-> <<"validate">>, inspected |-> FALSE]
    ELSE IF Truthy(p.fileBuffer) \/ Truthy(p.filePath)
    THEN IF Falsy(p.fileBuffer) /\ ~FileExists(p.filePath)
         THEN [ok |-> FALSE, result |-> Fail("File path does not exist"), reference |-> None,
               stages |-> <<"resolve", "error">>, inspected |-> FALSE]
         ELSE IF Falsy(ExtractTransactionReference(DashenFile(p)))
         THEN [ok |-> FALSE, result |-> Fail("Reference or file is required"),
               reference |-> None, stages |-> <<"resolve", "validate", "error">>,
               inspected |-> TRUE]
         ELSE [ok |-> TRUE, result |-> NoResult,
               reference |-> ExtractTransactionReference(DashenFile(p)),
               stages |-> <<"resolve", "validate">>, inspected |-> TRUE]
    ELSE [ok |-> FALSE, result |-> Fail("Reference or file is required"), reference |-> None,
          stages |-> <<"validate", "error">>, inspected |-> FALSE]

VerifyDashen ==
    /\ pc = "verifyDashen"
    /\ LET r == VerifyDashenResolve(arg)
       IN  /\ reference' = r.reference
           /\ fileInspected' = r.inspected
           /\ IF r.ok
              THEN /\ Goto("verifyDashen.get", r.stages)
                   /\ acqRef' = r.reference
                   /\ UNCHANGED <<result, browser>>
              ELSE /\ Return(r.result, browser, r.stages)
                   /\ acqRef' = acqRef
    /\ UNCHANGED <<parse, calls, navigations, timedOut>>
    /\ UNCHANGED <<entry, bank, payload, arg, pdfUrl, waited, doc, thrown, launches,
                   httpRequests>>

\* parseDashenReceipt returns success: true whatever matched; the names are
\* titleCase(match ?? ""), the empty string when the label is missing.
ParseDashenReceipt(d) ==
    IF ~d.readable THEN Fail("Failed to parse Dashen PDF")
    ELSE Success([ParsedData(d, Fields) EXCEPT
                    !.payer = IF "payer" \in d.labels THEN "doc" ELSE "empty",
                    !.receiver = IF "receiver" \in d.labels THEN "doc" ELSE "empty"])

ParseDashenReceiptStages(d) ==
    IF ~d.readable THEN <<"extract", "error">> ELSE <<"extract", "fields", "normalize">>

\* axios.get(url, {timeout: 30000}) and parseDashenReceipt.  The catch returns
\* err.message as it is.
VerifyDashenGet ==
    /\ pc = "verifyDashen.get"
    /\ httpRequests' = httpRequests + 1
    /\ \E o \in {"get throws", "response"}, m \in EnvMessages, d \in ProviderDocs :
         /\ doc' = IF o = "response" THEN FromProvider(d) ELSE doc
         /\ IF o = "get throws"
            THEN Return(Fail(m), browser, <<"acquire", "error">>)
            ELSE Return(ParseDashenReceipt(d), browser,
                        <<"acquire">> \o ParseDashenReceiptStages(d))
    /\ UNCHANGED <<parse, calls, navigations, timedOut>>
    /\ UNCHANGED <<entry, bank, payload, arg, reference, pdfUrl, waited, thrown, launches,
                   fileInspected, acqRef>>

(***************************************************************************)
(* abyssinia.verifier.ts: verifyAbyssinia(reference, accountSuffix,        *)
(* filePath), fetchSlipText, parseSlip                                     *)
(***************************************************************************)

\* The catch of verifyAbyssinia.
AbyssiniaCaught(m) == Fail(MessageOr(m, "Abyssinia verification failed"))

\* verifyAbyssinia up to the call of fetchSlipText.
VerifyAbyssiniaResolve(p, m) ==
    IF Truthy(p.filePath)
    THEN IF ~FileReadable(p.filePath)
         THEN [ok |-> FALSE, result |-> AbyssiniaCaught(m), reference |-> p.reference,
               stages |-> <<"resolve", "error">>]
         ELSE IF Falsy(FileRef(p.filePath))
         THEN [ok |-> FALSE,
               result |-> Fail("Transaction reference not found in uploaded file"),
               reference |-> p.reference, stages |-> <<"resolve", "error">>]
         ELSE IF Falsy(p.accountSuffix)
         THEN [ok |-> FALSE, result |-> Fail("Reference and account suffix are required"),
               reference |-> FileRef(p.filePath),
               stages |-> <<"resolve", "validate", "error">>]
         ELSE [ok |-> TRUE, result |-> NoResult, reference |-> FileRef(p.filePath),
               stages |-> <<"resolve", "validate">>]
    ELSE IF Falsy(p.reference) \/ Falsy(p.accountSuffix)
    THEN [ok |-> FALSE, result |-> Fail("Reference and account suffix are required"),
          reference |-> p.reference, stages |-> <<"validate", "error">>]
    ELSE [ok |-> TRUE, result |-> NoResult, reference |-> p.reference,
          stages |-> <<"validate">>]

VerifyAbyssinia ==
    /\ pc = "verifyAbyssinia"
    /\ \E m \in EnvMessages :
         LET r == VerifyAbyssiniaResolve(arg, m)
         IN  /\ reference' = r.reference
             /\ IF r.ok
                THEN /\ Goto("fetchSlipText", r.stages)
                     /\ acqRef' = r.reference
                     /\ UNCHANGED <<result, browser>>
                ELSE /\ Return(r.result, browser, r.stages)
                     /\ acqRef' = acqRef
    /\ fileInspected' = Truthy(arg.filePath)
    /\ UNCHANGED <<parse, calls, navigations, timedOut>>
    /\ UNCHANGED <<entry, bank, payload, arg, pdfUrl, waited, doc, thrown, launches,
                   httpRequests>>

SlipFields == {"receiver", "receiverAccount", "amount", "date", "reference"}

\* parseSlip: a text shorter than 30 characters is rejected, anything else is
\* a success with whatever matched.
ParseSlip(d) ==
    IF ~d.long THEN Fail("Slip page returned empty or invalid content")
    ELSE Success(ParsedData(d, SlipFields))

ParseSlipStages(d) ==
    IF ~d.long THEN <<"extract", "error">> ELSE <<"extract", "fields", "normalize">>

\* fetchSlipText (launch, goto, waitForSelector, evaluate in a try whose
\* finally closes the browser), then parseSlip.
FetchSlipText ==
    /\ pc = "fetchSlipText"
    /\ launches' = launches + 1
    /\ \E o \in {"launch throws", "page throws", "text"}, m \in EnvMessages,
          d \in ProviderDocs :
         /\ doc' = IF o = "text" THEN FromProvider(d) ELSE doc
         /\ CASE o = "launch throws" ->
                   Return(AbyssiniaCaught(m), "none", <<"acquire", "error">>)
              [] o = "page throws" ->
                   Return(AbyssiniaCaught(m), "closed", <<"acquire", "error">>)
              [] OTHER ->
                   Return(ParseSlip(d), "closed", <<"acquire">> \o ParseSlipStages(d))
    /\ UNCHANGED <<parse, calls, navigations, timedOut>>
    /\ UNCHANGED <<entry, bank, payload, arg, reference, pdfUrl, waited, thrown,
                   httpRequests, fileInspected, acqRef>>

(***************************************************************************)
(* telebirr.verifier.ts: verifyTelebirr, fetchTelebirrReceiptHtml,         *)
(* parseTelebirrReceipt                                                    *)
(***************************************************************************)

VerifyTelebirr ==
    /\ pc = "verifyTelebirr"
    /\ IF Falsy(arg.reference)
       THEN /\ Return(Fail("Transaction number is required"), browser,
                      <<"validate", "error">>)
            /\ UNCHANGED <<reference, acqRef>>
       ELSE /\ Goto("fetchTelebirrReceiptHtml", <<"validate">>)
            /\ reference' = arg.reference
            /\ acqRef' = arg.reference
            /\ UNCHANGED <<result, browser>>
    /\ UNCHANGED <<parse, calls, navigations, timedOut>>
    /\ UNCHANGED <<entry, bank, payload, arg, pdfUrl, waited, doc, thrown, launches,
                   httpRequests, fileInspected>>

\* parseTelebirrReceipt and the data verifyTelebirr builds from it.  marker:
\* the page contains "telebirr"; positive: the amount parses to a number > 0.
\* The reference falls back to the requested one, the date to the current
\* time, the other fields to fixed placeholders.
TelebirrReceipt(d, marker, positive) ==
    IF ~marker \/ "amount" \notin d.labels \/ ~positive
    THEN Fail("Telebirr receipt not found or invalid")
    ELSE Success([f \in Fields |->
                    CASE f = "payer" -> IF "payer" \in d.labels THEN "doc" ELSE "placeholder"
                      [] f = "amount" -> "doc"
                      [] f = "date" -> IF "date" \in d.labels THEN Value(d, "date") ELSE "now"
                      [] f = "reference" ->
                           IF "reference" \in d.labels THEN "doc" ELSE "request"
                      [] OTHER -> "placeholder"])

TelebirrReceiptStages(d, marker, positive) ==
    IF ~marker \/ "amount" \notin d.labels
    THEN <<"extract", "fields", "error">>
    ELSE IF ~positive THEN <<"extract", "fields", "normalize", "error">>
    ELSE <<"extract", "fields", "normalize">>

\* axios.get(url, {timeout: 15000}); a status other than 200 throws.
FetchTelebirrReceiptHtml ==
    /\ pc = "fetchTelebirrReceiptHtml"
    /\ httpRequests' = httpRequests + 1
    /\ \E o \in {"get throws", "not 200", "html"}, m \in EnvMessages, d \in ProviderDocs,
          marker \in BOOLEAN, positive \in BOOLEAN :
         /\ doc' = IF o = "html" THEN FromProvider(d) ELSE doc
         /\ CASE o = "get throws" ->
                   Return(Fail(MessageOr(m, "Telebirr verification failed")), browser,
                          <<"acquire", "error">>)
              [] o = "not 200" ->
                   Return(Fail("Failed to fetch Telebirr receipt"), browser,
                          <<"acquire", "error">>)
              [] OTHER ->
                   Return(TelebirrReceipt(d, marker, positive), browser,
                          <<"acquire">> \o TelebirrReceiptStages(d, marker, positive))
    /\ UNCHANGED <<parse, calls, navigations, timedOut>>
    /\ UNCHANGED <<entry, bank, payload, arg, reference, pdfUrl, waited, thrown, launches,
                   fileInspected, acqRef>>

(***************************************************************************)
(* verification.service.ts: verifyTelebirr                                 *)
(***************************************************************************)

\* No try encloses the await of fetchTelebirrReceiptHtml: what it throws
\* leaves verifyTelebirr.  The data of a success is the page as fetched.
ServiceVerifyTelebirr ==
    /\ pc = "service.verifyTelebirr"
    /\ IF Falsy(arg.reference)
       THEN /\ Return(Fail("Reference is required"), browser, <<"validate", "error">>)
            /\ UNCHANGED <<reference, acqRef, httpRequests, doc, thrown>>
       ELSE /\ reference' = arg.reference
            /\ acqRef' = arg.reference
            /\ httpRequests' = httpRequests + 1
            /\ \E o \in {"get throws", "not 200", "empty", "html"}, d \in ProviderDocs :
                 /\ doc' = IF o = "html" THEN FromProvider(d) ELSE doc
                 /\ CASE o \in {"get throws", "not 200"} ->
                           Throw(browser, <<"validate", "acquire", "error">>)
                      [] o = "empty" ->
                           /\ Return(Fail("Receipt not found"), browser,
                                     <<"validate", "acquire", "error">>)
                           /\ thrown' = thrown
                      [] OTHER ->
                           /\ Return(Success(NoData), browser, <<"validate", "acquire">>)
                           /\ thrown' = thrown
    /\ UNCHANGED <<parse, calls, navigations, timedOut>>
    /\ UNCHANGED <<entry, bank, payload, arg, pdfUrl, waited, launches, fileInspected>>

(***************************************************************************)
(* part_012: verifyCBE(reference, accountSuffix)                           *)
(***************************************************************************)

Part012Mandatory == {"payer", "receiver", "reference", "amount", "date"}

\* parseCBEReceipt of part_012: the error lists the missing mandatory fields;
\* an account that did not match is reported as "N/A".
Part012ParseCBEReceipt(d) ==
    IF ~d.readable THEN Fail("Failed to parse PDF: ")
    ELSE IF Part012Mandatory \subseteq d.labels
    THEN Success([ParsedData(d, Fields) EXCEPT
                    !.payerAccount = IF "payerAccount" \in d.labels THEN "doc"
                                     ELSE "placeholder",
                    !.receiverAccount = IF "receiverAccount" \in d.labels THEN "doc"
                                        ELSE "placeholder"])
    ELSE FailMissing("Could not extract: ", Part012Mandatory \ d.labels)

Part012ParseCBEReceiptStages(d) ==
    IF ~d.readable THEN <<"extract", "error">>
    ELSE IF Part012Mandatory \subseteq d.labels THEN <<"extract", "fields", "normalize">>
    ELSE <<"extract", "fields", "error">>

\* The catch of the legacy verifyCBE.
Part012LegacyCaught == Fail("Both direct and Puppeteer failed: ")

Part012LegacyFieldsIncomplete == "Could not extract all required fields from PDF."

\* parseCBEReceipt of the legacy verifyCBE: the seven fields of CBEMandatory
\* are required, the date as a token (new Date(dateRaw) is an object, valid
\* or not), and the error names none of them.
Part012LegacyParseCBEReceipt(d) ==
    IF ~d.readable THEN Fail("Error parsing PDF data")
    ELSE IF CBEMandatory \subseteq d.labels THEN Success(ParsedData(d, Fields))
    ELSE Fail(Part012LegacyFieldsIncomplete)

Part012LegacyParseCBEReceiptStages(d) ==
    IF ~d.readable THEN <<"extract", "error">>
    ELSE IF CBEMandatory \subseteq d.labels THEN <<"extract", "fields", "normalize">>
    ELSE <<"extract", "fields", "normalize", "error">>

\* The whole function is one try whose catch closes the browser; the two
\* returns inside the try leave it open.
Part012VerifyCBELegacy ==
    /\ pc = "part_012.verifyCBE.legacy"
    /\ launches' = launches + 1
    /\ reference' = arg.reference
    /\ acqRef' = arg.reference
    /\ \E o \in {"launch throws", "goto throws", "no pdf", "get throws", "pdf"},
          d \in ProviderDocs :
         /\ pdfUrl' = IF o \in {"get throws", "pdf"} THEN "pdf-url" ELSE None
         /\ httpRequests' = IF o \in {"get throws", "pdf"} THEN httpRequests + 1
                            ELSE httpRequests
         /\ doc' = IF o = "pdf" THEN FromProvider(d) ELSE doc
         /\ CASE o = "launch throws" ->
                   Return(Part012LegacyCaught, "none", <<"acquire", "error">>)
              [] o = "goto throws" ->
                   Return(Part012LegacyCaught, "closed", <<"acquire", "error">>)
              [] o = "no pdf" ->
                   Return(Fail("No PDF detected via Puppeteer."), "open",
                          <<"acquire", "error">>)
              [] o = "get throws" ->
                   Return(Part012LegacyCaught, "closed", <<"acquire", "error">>)
              [] OTHER ->
                   Return(Part012LegacyParseCBEReceipt(d), "open",
                          <<"acquire">> \o Part012LegacyParseCBEReceiptStages(d))
    /\ UNCHANGED <<parse, calls, navigations, timedOut>>
    /\ UNCHANGED <<entry, bank, payload, arg, waited, thrown, fileInspected>>

(***************************************************************************)
(* part_012: verifyCBE(payload), fetchCBEReceiptPdf                        *)
(***************************************************************************)

\* verifyCBE up to the call of fetchCBEReceiptPdf.  extractReferenceFromImage
\* throws before it reads the buffer.
Part012VerifyCBEResolve(p, m) ==
    IF Falsy(p.accountSuffix)
    THEN [ok |-> FALSE, result |-> Fail("accountSuffix is required"), reference |-> None,
          stages |-> <<"validate", "error">>, inspected |-> FALSE]
    ELSE IF Falsy(p.reference) /\ Truthy(p.pdfBuffer)
    THEN IF p.fileType # "pdf"
         THEN [ok |-> FALSE, result |-> Fail("Image OCR not implemented yet"),
               reference |-> None, stages |-> <<"validate", "resolve", "error">>,
               inspected |-> FALSE]
         ELSE IF ~FileReadable(p.pdfBuffer)
         THEN [ok |-> FALSE, result |-> Fail(m), reference |-> None,
               stages |-> <<"validate", "resolve", "error">>, inspected |-> TRUE]
         ELSE IF Falsy(FileRef(p.pdfBuffer))
         THEN [ok |-> FALSE, result |-> Fail("Reference not found in uploaded PDF"),
               reference |-> None, stages |-> <<"validate", "resolve", "error">>,
               inspected |-> TRUE]
         ELSE [ok |-> TRUE, result |-> NoResult, reference |-> FileRef(p.pdfBuffer),
               stages |-> <<"validate", "resolve", "validate">>, inspected |-> TRUE]
    ELSE IF Falsy(p.reference)
    THEN [ok |-> FALSE, result |-> Fail("Reference not found"), reference |-> None,
          stages |-> <<"validate", "validate", "error">>, inspected |-> FALSE]
    ELSE [ok |-> TRUE, result |-> NoResult, reference |-> p.reference,
          stages |-> <<"validate", "validate">>, inspected |-> FALSE]

Part012VerifyCBE ==
    /\ pc = "part_012.verifyCBE"
    /\ \E m \in EnvMessages :
         LET r == Part012VerifyCBEResolve(arg, m)
         IN  /\ reference' = r.reference
             /\ fileInspected' = r.inspected
             /\ IF r.ok
                THEN /\ Goto("part_012.fetchCBEReceiptPdf", r.stages)
                     /\ acqRef' = r.reference
                     /\ UNCHANGED <<result, browser>>
                ELSE /\ Return(r.result, browser, r.stages)
                     /\ acqRef' = acqRef
    /\ UNCHANGED <<parse, calls, navigations, timedOut>>
    /\ UNCHANGED <<entry, bank, payload, arg, pdfUrl, waited, doc, thrown, launches,
                   httpRequests>>

\* fetchCBEReceiptPdf (a try whose finally closes the browser), then
\* parseCBEReceipt.  The catch of verifyCBE returns err.message as it is.
Part012FetchCBEReceiptPdf ==
    /\ pc = "part_012.fetchCBEReceiptPdf"
    /\ launches' = launches + 1
    /\ \E o \in {"launch throws", "goto throws", "no pdf", "get throws", "pdf"},
          m \in EnvMessages, d \in ProviderDocs :
         /\ pdfUrl' = IF o \in {"get throws", "pdf"} THEN "pdf-url" ELSE None
         /\ httpRequests' = IF o \in {"get throws", "pdf"} THEN httpRequests + 1
                            ELSE httpRequests
         /\ doc' = IF o = "pdf" THEN FromProvider(d) ELSE doc
         /\ CASE o = "launch throws" -> Return(Fail(m), "none", <<"acquire", "error">>)
              [] o = "goto throws" -> Return(Fail(m), "closed", <<"acquire", "error">>)
              [] o = "no pdf" ->
                   Return(Fail("Receipt PDF not found on page."), "closed",
                          <<"acquire", "error">>)
              [] o = "get throws" -> Return(Fail(m), "closed", <<"acquire", "error">>)
              [] OTHER ->
                   Return(Part012ParseCBEReceipt(d), "closed",
                          <<"acquire">> \o Part012ParseCBEReceiptStages(d))
    /\ UNCHANGED <<parse, calls, navigations, timedOut>>
    /\ UNCHANGED <<entry, bank, payload, arg, reference, waited, thrown, fileInspected,
                   acqRef>>

(***************************************************************************)
(* part_005: verifyAbyssinia(input), fetchSlipPdf, parseSlip               *)
(***************************************************************************)

Part005SlipFields == {"payer", "payerAccount", "amount", "date", "reference", "reason"}

Part005ParseSlip(d) ==
    IF ~d.long THEN Fail("Slip PDF returned empty or invalid content")
    ELSE Success(ParsedData(d, Part005SlipFields))

\* The text extraction of verifyAbyssinia followed by parseSlip; m is the
\* message of the error pdfjs throws on an unreadable document.
Part005ExtractAndParse(d, m) ==
    IF ~d.readable THEN AbyssiniaCaught(m) ELSE Part005ParseSlip(d)

Part005ExtractAndParseStages(d) ==
    IF ~d.readable \/ ~d.long THEN <<"extract", "error">>
    ELSE <<"extract", "fields", "normalize">>

\* With a filePath the file itself is read and parsed as the slip; the slip
\* is fetched only when no filePath is given.
Part005VerifyAbyssinia ==
    /\ pc = "part_005.verifyAbyssinia"
    /\ reference' = arg.reference
    /\ IF Falsy(arg.accountSuffix) /\ Falsy(arg.filePath)
       THEN /\ Return(Fail("Account suffix is required if no filePath provided"), browser,
                      <<"validate", "error">>)
            /\ UNCHANGED <<doc, acqRef>>
       ELSE IF Truthy(arg.filePath)
       THEN IF ~FileExists(arg.filePath)
            THEN /\ Return(Fail("File path does not exist"), browser,
                           <<"validate", "error">>)
                 /\ UNCHANGED <<doc, acqRef>>
            ELSE /\ doc' = FromUpload(arg.filePath)
                 /\ acqRef' = acqRef
                 /\ \E m \in EnvMessages :
                      Return(Part005ExtractAndParse(FromUpload(arg.filePath), m), browser,
                             <<"validate">> \o
                             Part005ExtractAndParseStages(FromUpload(arg.filePath)))
       ELSE IF Falsy(arg.reference)
       THEN /\ Return(Fail("Transaction reference is required"), browser,
                      <<"validate", "validate", "error">>)
            /\ UNCHANGED <<doc, acqRef>>
       ELSE /\ Goto("part_005.fetchSlipPdf", <<"validate", "validate">>)
            /\ acqRef' = arg.reference
            /\ UNCHANGED <<result, browser, doc>>
    /\ UNCHANGED <<parse, calls, navigations, timedOut>>
    /\ UNCHANGED <<entry, bank, payload, arg, pdfUrl, waited, thrown, launches,
                   httpRequests, fileInspected>>

\* The promise is rejected with a string, which has no message property.
Part005Rejected == AbyssiniaCaught(None)

\* launch, goto, the targetcreated listener and the click on "Download PDF".
\* When the button is clicked the promise settles only in the listener.
Part005FetchSlipPdf ==
    /\ pc = "part_005.fetchSlipPdf"
    /\ launches' = launches + 1
    /\ waited' = 0
    /\ \E o \in {"launch throws", "goto throws", "no button", "clicked"}, m \in EnvMessages :
         CASE o = "launch throws" ->
                Return(AbyssiniaCaught(m), "none", <<"acquire", "error">>)
           [] o = "goto throws" ->
                Return(AbyssiniaCaught(m), "closed", <<"acquire", "error">>)
           [] o = "no button" ->
                Return(Part005Rejected, "closed", <<"acquire", "error">>)
           [] OTHER ->
                /\ Goto("part_005.fetchSlipPdf.wait", <<"acquire">>)
                /\ browser' = "open"
                /\ result' = result
    /\ UNCHANGED <<parse, calls, navigations, timedOut>>
    /\ UNCHANGED <<entry, bank, payload, arg, reference, pdfUrl, doc, thrown, httpRequests,
                   fileInspected, acqRef>>

\* browser.once("targetcreated", ...) fires: the listener resolves with the
\* new page's response body or rejects; the finally closes the browser.
Part005TargetCreated ==
    /\ pc = "part_005.fetchSlipPdf.wait"
    /\ waited' = 0
    /\ \E o \in {"no page", "goto throws", "no response", "buffer"}, m \in EnvMessages,
          d \in ProviderDocs :
         /\ doc' = IF o = "buffer" THEN FromProvider(d) ELSE doc
         /\ CASE o \in {"no page", "no response"} ->
                   Return(Part005Rejected, "closed", <<"error">>)
              [] o = "goto throws" -> Return(AbyssiniaCaught(m), "closed", <<"error">>)
              [] OTHER ->
                   Return(Part005ExtractAndParse(FromProvider(d), m), "closed",
                          Part005ExtractAndParseStages(d))
    /\ UNCHANGED <<parse, calls, navigations, timedOut>>
    /\ UNCHANGED <<entry, bank, payload, arg, reference, pdfUrl, thrown, launches,
                   httpRequests, fileInspected, acqRef>>

\* Time passes while no target is created.  The promise has no timer: the
\* model follows the wait in steps of WaitStepMs up to MaxWaitMs.
WaitStepMs == 20000

MaxWaitMs == 80000

Part005AwaitTarget ==
    /\ pc = "part_005.fetchSlipPdf.wait"
    /\ waited < MaxWaitMs
    /\ waited' = waited + WaitStepMs
    /\ UNCHANGED <<parse, calls, navigations, timedOut>>
    /\ UNCHANGED <<entry, bank, payload, pc, arg, reference, browser, pdfUrl, doc, result,
                   thrown, launches, httpRequests, fileInspected, acqRef, trace>>

(***************************************************************************)
(* part_005: verifyAbyssinia(reference, accountSuffix), the page reader    *)
(***************************************************************************)

Part005PageMandatory == {"receiverAccount", "receiver", "amount", "date", "reference"}

Part005PageFailed == Fail("Failed to verify Abyssinia transaction")

\* The payer is filled with the receiver's name, the payer account with "".
Part005PageData(d) ==
    [f \in Fields |->
       CASE f = "payer" -> "doc"
         [] f = "payerAccount" -> "empty"
         [] OTHER -> Value(d, f)]

\* launch, goto and page.evaluate in a try with a catch and a finally that
\* closes the browser.  A date cell of another shape makes the split throw
\* or yields an Invalid Date.
Part005VerifyAbyssiniaPage ==
    /\ pc = "part_005.verifyAbyssinia.page"
    /\ launches' = launches + 1
    /\ reference' = arg.reference
    /\ acqRef' = arg.reference
    /\ \E o \in {"launch throws", "page throws", "receipt"}, split \in {"throws", "returns"},
          d \in ProviderDocs :
         /\ doc' = IF o = "receipt" THEN FromProvider(d) ELSE doc
         /\ CASE o = "launch throws" ->
                   Return(Part005PageFailed, "none", <<"acquire", "error">>)
              [] o = "page throws" ->
                   Return(Part005PageFailed, "closed", <<"acquire", "error">>)
              [] o = "receipt" /\ ~(Part005PageMandatory \subseteq d.labels) ->
                   Return(FailMissing("Could not extract essential fields: ",
                                      Part005PageMandatory \ d.labels), "closed",
                          <<"acquire", "extract", "fields", "error">>)
              [] o = "receipt" /\ Part005PageMandatory \subseteq d.labels
                   /\ ~d.dateOk /\ split = "throws" ->
                   Return(Part005PageFailed, "closed",
                          <<"acquire", "extract", "fields", "normalize", "error">>)
              [] OTHER ->
                   Return(Success(Part005PageData(d)), "closed",
                          <<"acquire", "extract", "fields", "normalize">>)
    /\ UNCHANGED <<parse, calls, navigations, timedOut>>
    /\ UNCHANGED <<entry, bank, payload, arg, pdfUrl, waited, thrown, httpRequests,
                   fileInspected>>

(***************************************************************************)
(* part_006: verifyAbyssinia(input), fetchSlipPdf, parseSlip               *)
(***************************************************************************)

\* The file verifyAbyssinia reads: input.fileBuffer, else input.filePath.
Part006File(p) == IF Truthy(p.fileBuffer) THEN p.fileBuffer ELSE p.filePath

\* throw new Error("Reference not found in uploaded ...")
Part006ReferenceNotFound(p) ==
    IF Truthy(p.fileBuffer) /\ p.fileType = "image"
    THEN "Reference not found in uploaded image"
    ELSE "Reference not found in uploaded PDF"

\* verifyAbyssinia up to the call of fetchSlipPdf.
Part006VerifyAbyssiniaResolve(p, m) ==
    IF Falsy(p.accountSuffix) /\ Falsy(p.filePath) /\ Falsy(p.fileBuffer)
    THEN [ok |-> FALSE, result |-> Fail("Account suffix is required"),
          reference |-> p.reference, stages |-> <<"validate", "error">>, inspected |-> FALSE]
    ELSE IF Truthy(p.fileBuffer) /\ Falsy(p.fileType)
    THEN [ok |-> FALSE, result |-> Fail("fileType must be specified"),
          reference |-> p.reference, stages |-> <<"validate", "validate", "error">>,
          inspected |-> FALSE]
    ELSE IF Falsy(p.fileBuffer) /\ Truthy(p.filePath) /\ ~FileExists(p.filePath)
    THEN [ok |-> FALSE, result |-> Fail("File path does not exist"),
          reference |-> p.reference, stages |-> <<"validate", "validate", "error">>,
          inspected |-> FALSE]
    ELSE IF Truthy(p.fileBuffer) \/ Truthy(p.filePath)
    THEN IF ~FileReadable(Part006File(p))
         THEN [ok |-> FALSE, result |-> AbyssiniaCaught(m), reference |-> p.reference,
               stages |-> <<"validate", "resolve", "error">>, inspected |-> TRUE]
         ELSE IF Falsy(FileRef(Part006File(p)))
         THEN [ok |-> FALSE, result |-> Fail(Part006ReferenceNotFound(p)),
               reference |-> None, stages |-> <<"validate", "resolve", "error">>,
               inspected |-> TRUE]
         ELSE [ok |-> TRUE, result |-> NoResult, reference |-> FileRef(Part006File(p)),
               stages |-> <<"validate", "resolve">>, inspected |-> TRUE]
    ELSE IF Falsy(p.reference)
    THEN [ok |-> FALSE, result |-> Fail("Transaction reference is required"),
          reference |-> p.reference, stages |-> <<"validate", "validate", "error">>,
          inspected |-> FALSE]
    ELSE [ok |-> TRUE, result |-> NoResult, reference |-> p.reference,
          stages |-> <<"validate", "validate">>, inspected |-> FALSE]

Part006VerifyAbyssinia ==
    /\ pc = "part_006.verifyAbyssinia"
    /\ \E m \in EnvMessages :
         LET r == Part006VerifyAbyssiniaResolve(arg, m)
         IN  /\ reference' = r.reference
             /\ fileInspected' = r.inspected
             /\ IF r.ok
                THEN /\ Goto("part_006.fetchSlipPdf", r.stages)
                     /\ acqRef' = r.reference
                     /\ UNCHANGED <<result, browser>>
                ELSE /\ Return(r.result, browser, r.stages)
                     /\ acqRef' = acqRef
    /\ UNCHANGED <<parse, calls, navigations, timedOut>>
    /\ UNCHANGED <<entry, bank, payload, arg, pdfUrl, waited, doc, thrown, launches,
                   httpRequests>>

\* parseTransactionDate returns null for a token of another shape.
Part006ParseSlip(d) ==
    IF ~d.long THEN Fail("Slip PDF returned empty or invalid content")
    ELSE Success([ParsedData(d, Part005SlipFields) EXCEPT
                    !.date = IF "date" \in d.labels /\ d.dateOk THEN "doc" ELSE "null"])

\* fetchSlipPdf: launch, goto, waitForSelector, page.pdf, close, with no
\* try/finally: an exception after the launch leaves the browser open.  Then
\* the text extraction and parseSlip of verifyAbyssinia.
Part006FetchSlipPdf ==
    /\ pc = "part_006.fetchSlipPdf"
    /\ launches' = launches + 1
    /\ \E o \in {"launch throws", "page throws", "pdf"}, m \in EnvMessages,
          d \in ProviderDocs :
         /\ doc' = IF o = "pdf" THEN FromProvider(d) ELSE doc
         /\ CASE o = "launch throws" ->
                   Return(AbyssiniaCaught(m), "none", <<"acquire", "error">>)
              [] o = "page throws" ->
                   Return(AbyssiniaCaught(m), "open", <<"acquire", "error">>)
              [] o = "pdf" /\ ~d.readable ->
                   Return(AbyssiniaCaught(m), "closed", <<"acquire", "extract", "error">>)
              [] OTHER ->
                   Return(Part006ParseSlip(d), "closed",
                          <<"acquire">> \o Part005ExtractAndParseStages(d))
    /\ UNCHANGED <<parse, calls, navigations, timedOut>>
    /\ UNCHANGED <<entry, bank, payload, arg, reference, pdfUrl, waited, thrown,
                   httpRequests, fileInspected, acqRef>>

(***************************************************************************)
(* part_007: verifyAbyssinia(reference, accountSuffix), the page reader    *)
(***************************************************************************)

\* The data object of the catch: every field null, the amount 0.
Part007FailedData == [f \in Fields |-> IF f = "amount" THEN "zero" ELSE "null"]

Part007Failed ==
    [success |-> FALSE, error |-> "Failed to verify Abyssinia transaction", missing |-> {},
     data |-> Part007FailedData]

\* parseFloat((getText("Transferred amount") || "0").replace(/[^\d.]/g, ""))
\* and then `receipt.transferredAmount || 0`: 0 when the label is not on the
\* page, and 0 when the cell holds no number (NaN) or holds 0.
Part007Amount(d, numeric) == IF "amount" \in d.labels /\ numeric THEN "doc" ELSE "zero"

\* The date cell is split at "/", " " and ":"; a cell of another shape makes
\* a split throw (the date is null then) or yields an Invalid Date.
Part007Date(d, split) ==
    IF "date" \notin d.labels THEN "null"
    ELSE IF d.dateOk THEN "doc"
    ELSE IF split = "throws" THEN "null" ELSE "invalid"

\* The payer is filled with the receiver's name, the payer account with null.
Part007Data(d, numeric, split) ==
    [f \in Fields |->
       CASE f = "payer" -> Value(d, "receiver")
         [] f = "payerAccount" -> "null"
         [] f = "amount" -> Part007Amount(d, numeric)
         [] f = "date" -> Part007Date(d, split)
         [] OTHER -> Value(d, f)]

\* launch, goto and page.evaluate in a try with a catch and a finally that
\* closes the browser.  Every page that loads is a success.
Part007VerifyAbyssinia ==
    /\ pc = "part_007.verifyAbyssinia"
    /\ launches' = launches + 1
    /\ reference' = arg.reference
    /\ acqRef' = arg.reference
    /\ \E o \in {"launch throws", "page throws", "receipt"}, split \in {"throws", "returns"},
          numeric \in BOOLEAN, d \in ProviderDocs :
         /\ doc' = IF o = "receipt" THEN FromProvider(d) ELSE doc
         /\ CASE o = "launch throws" ->
                   Return(Part007Failed, "none", <<"acquire", "error">>)
              [] o = "page throws" ->
                   Return(Part007Failed, "closed", <<"acquire", "error">>)
              [] OTHER ->
                   Return(Success(Part007Data(d, numeric, split)), "closed",
                          <<"acquire", "extract", "fields", "normalize">>)
    /\ UNCHANGED <<parse, calls, navigations, timedOut>>
    /\ UNCHANGED <<entry, bank, payload, arg, pdfUrl, waited, thrown, httpRequests,
                   fileInspected>>

(***************************************************************************)
(* utils/logger.ts: safeGoto, clickDownloadButton, parseAbyssiniaPdf,      *)
(* verifyAbyssinia(reference, accountSuffix, proxy)                        *)
(***************************************************************************)

\* await safeGoto(page, url, 3)
SafeGotoRetries == 3

\* const timeout = 20000 of clickDownloadButton
ClickTimeoutMs == 20000

\* const interval = 500 of clickDownloadButton
ClickIntervalMs == 500

\* One page.goto of safeGoto: it resolved, or it threw an error with a message.
Navigated == [ok |-> TRUE, message |-> ""]

NavigationFailed(m) == [ok |-> FALSE, message |-> m]

\* A safeGoto whose catch rethrows whatever the attempt.
SafeGotoRethrowsAlways(i, retries) == TRUE

\* if (i === retries - 1) throw err, for the attempt with loop index i.
SafeGotoRethrows(i, retries) == i = retries - 1

LoggerMandatory == {"receiver", "receiverAccount", "amount", "reference", "date"}

\* parseAbyssiniaPdf: its own try and catch; the payer is filled with the
\* receiver's name, payerAccount and reason are null.
ParseAbyssiniaPdf(d) ==
    IF ~d.readable THEN Fail("PDF parsing failed: ")
    ELSE IF ~(LoggerMandatory \subseteq d.labels)
    THEN Fail("Could not extract all required fields from PDF")
    ELSE Success([f \in Fields |->
                    CASE f = "payer" -> "doc"
                      [] f \in {"payerAccount", "reason"} -> "null"
                      [] OTHER -> Value(d, f)])

ParseAbyssiniaPdfStages(d) ==
    IF ~d.readable THEN <<"extract", "error">>
    ELSE IF ~(LoggerMandatory \subseteq d.labels) THEN <<"extract", "fields", "error">>
    ELSE <<"extract", "fields", "normalize">>

\* reference.trim() and accountSuffix.trim() run before the try: an undefined
\* argument throws out of the function.  Then the launch, newPage and
\* evaluateOnNewDocument inside the try; the catch returns err.message and the
\* finally closes the browser.
LoggerVerifyAbyssinia ==
    /\ pc = "logger.verifyAbyssinia"
    /\ reference' = arg.reference
    /\ waited' = 0
    /\ IF arg.reference = None \/ arg.accountSuffix = None
       THEN /\ Throw("none", <<"error">>)
            /\ UNCHANGED <<launches, acqRef>>
       ELSE /\ launches' = launches + 1
            /\ acqRef' = arg.reference
            /\ thrown' = thrown
            /\ \E o \in {"launch throws", "page throws", "page"}, m \in EnvMessages :
                 CASE o = "launch throws" -> Return(Fail(m), "none", <<"acquire", "error">>)
                   [] o = "page throws" -> Return(Fail(m), "closed", <<"acquire", "error">>)
                   [] OTHER -> /\ Goto("logger.safeGoto", <<"acquire">>)
                               /\ browser' = "open"
                               /\ result' = result
    /\ UNCHANGED <<parse, calls, navigations, timedOut>>
    /\ UNCHANGED <<entry, bank, payload, arg, pdfUrl, doc, httpRequests, fileInspected>>

\* One turn of the for loop of safeGoto: page.goto resolves and safeGoto
\* returns, or it throws and the catch either rethrows to verifyAbyssinia,
\* whose catch returns the message, or lets the loop go on.
SafeGoto ==
    /\ pc = "logger.safeGoto"
    /\ Len(navigations) < SafeGotoRetries
    /\ \E ok \in BOOLEAN, m \in EnvMessages :
         IF ok
         THEN /\ navigations' = Append(navigations, Navigated)
              /\ Goto("logger.clickDownloadButton", <<>>)
              /\ UNCHANGED <<browser, result>>
         ELSE /\ navigations' = Append(navigations, NavigationFailed(m))
              /\ IF SafeGotoRethrows(Len(navigations), SafeGotoRetries)
                 THEN Return(Fail(m), "closed", <<"error">>)
                 ELSE UNCHANGED <<pc, trace, browser, result>>
    /\ UNCHANGED <<parse, calls, timedOut>>
    /\ UNCHANGED <<entry, bank, payload, arg, reference, pdfUrl, waited, doc, thrown, launches,
                   httpRequests, fileInspected, acqRef>>

\* safeGoto called on its own with arg.retries: the loop condition, then one
\* page.goto.  When the condition is false the function ends without a
\* return value and without an error.
SafeGotoAlone ==
    /\ pc = "safeGoto"
    /\ IF ~(Len(navigations) < arg.retries)
       THEN /\ navigations' = navigations
            /\ Goto("done", <<>>)
            /\ UNCHANGED <<browser, result, thrown>>
       ELSE \E ok \in BOOLEAN, m \in EnvMessages :
              IF ok
              THEN /\ navigations' = Append(navigations, Navigated)
                   /\ Goto("done", <<>>)
                   /\ UNCHANGED <<browser, result, thrown>>
              ELSE /\ navigations' = Append(navigations, NavigationFailed(m))
                   /\ IF SafeGotoRethrows(Len(navigations), arg.retries)
                      THEN Throw(browser, <<"error">>)
                      ELSE UNCHANGED <<pc, trace, browser, result, thrown>>
    /\ UNCHANGED <<parse, calls, timedOut>>
    /\ UNCHANGED <<entry, bank, payload, arg, reference, pdfUrl, waited, doc, launches,
                   httpRequests, fileInspected, acqRef>>

\* One turn of the while loop of clickDownloadButton, or the throw after it.
ClickDownloadButton ==
    /\ pc = "logger.clickDownloadButton"
    /\ IF waited >= ClickTimeoutMs
       THEN /\ timedOut' = TRUE
            /\ waited' = waited
            /\ result' = Fail("Download PDF button not found within timeout")
            /\ browser' = "closed"
            /\ pc' = AfterDetectionTimeout("logger.safeGoto")
            /\ trace' = trace \o <<"error">>
       ELSE /\ timedOut' = timedOut
            /\ \E o \in {"found", "absent", "throws"}, m \in EnvMessages :
                 CASE o = "found" -> /\ Goto("logger.waitForFunction", <<>>)
                                     /\ waited' = 0
                                     /\ UNCHANGED <<browser, result>>
                   [] o = "absent" -> /\ waited' = waited + ClickIntervalMs
                                      /\ UNCHANGED <<pc, trace, browser, result>>
                   [] OTHER -> /\ waited' = waited
                               /\ Return(Fail(m), "closed", <<"error">>)
    /\ UNCHANGED <<parse, calls, navigations>>
    /\ UNCHANGED <<entry, bank, payload, arg, reference, pdfUrl, doc, thrown, launches,
                   httpRequests, fileInspected, acqRef>>

\* page.waitForFunction(..., {timeout: 20000}), page.evaluate and
\* parseAbyssiniaPdf.
WaitForFunction ==
    /\ pc = "logger.waitForFunction"
    /\ \E o \in {"captured", "timeout", "throws"}, m \in EnvMessages, d \in ProviderDocs :
         CASE o = "captured" ->
                /\ doc' = FromProvider(d)
                /\ timedOut' = timedOut
                /\ Return(ParseAbyssiniaPdf(d), "closed", ParseAbyssiniaPdfStages(d))
           [] o = "timeout" ->
                /\ doc' = doc
                /\ timedOut' = TRUE
                /\ result' = Fail("Waiting failed: 20000ms exceeded")
                /\ browser' = "closed"
                /\ pc' = AfterDetectionTimeout("logger.safeGoto")
                /\ trace' = trace \o <<"error">>
           [] OTHER ->
                /\ doc' = doc
                /\ timedOut' = timedOut
                /\ Return(Fail(m), "closed", <<"error">>)
    /\ UNCHANGED <<parse, calls, navigations>>
    /\ UNCHANGED <<entry, bank, payload, arg, reference, pdfUrl, waited, thrown, launches,
                   httpRequests, fileInspected, acqRef>>

Next ==
    \/ Verify
    \/ VerifyReceipt
    \/ VerifyByBank
    \/ VerifyCBE
    \/ FetchCBEReceiptPdf
    \/ ParseCBEReceipt
    \/ VerifyMPesa
    \/ FetchMpesaPdf
    \/ FetchMpesaPdfPoll
    \/ FetchMpesaPdfGet
    \/ VerifyDashen
    \/ VerifyDashenGet
    \/ VerifyAbyssinia
    \/ FetchSlipText
    \/ VerifyTelebirr
    \/ FetchTelebirrReceiptHtml
    \/ ServiceVerifyTelebirr
    \/ Part012VerifyCBELegacy
    \/ Part012VerifyCBE
    \/ Part012FetchCBEReceiptPdf
    \/ Part005VerifyAbyssinia
    \/ Part005FetchSlipPdf
    \/ Part005TargetCreated
    \/ Part005AwaitTarget
    \/ Part005VerifyAbyssiniaPage
    \/ Part006VerifyAbyssinia
    \/ Part006FetchSlipPdf
    \/ Part007VerifyAbyssinia
    \/ LoggerVerifyAbyssinia
    \/ SafeGoto
    \/ SafeGotoAlone
    \/ ClickDownloadButton
    \/ WaitForFunction

Spec == Init /\ [][Next]_vars

(***************************************************************************)
(* The field parsers applied to receipt texts                              *)
(***************************************************************************)

\* The variables of a verification call.
callVars == <<entry, bank, payload, pc, arg, reference, browser, pdfUrl, waited,
              doc, result, thrown, launches, httpRequests, fileInspected, acqRef,
              trace, navigations, timedOut>>

\* No verification call is running.
Idle ==
    /\ entry = "none"
    /\ bank = "none"
    /\ payload = NoPayload
    /\ pc = "idle"
    /\ arg = NoPayload
    /\ reference = None
    /\ browser = "none"
    /\ pdfUrl = None
    /\ waited = 0
    /\ doc = NoDoc
    /\ result = NoResult
    /\ thrown = FALSE
    /\ launches = 0
    /\ httpRequests = 0
    /\ fileInspected = FALSE
    /\ acqRef = None
    /\ trace = <<>>
    /\ navigations = <<>>
    /\ timedOut = FALSE

(***************************************************************************)
(* Telebirr receipt pages: verifyTelebirr of telebirr.verifier.ts and      *)
(* TelebirrVerifier of part_013                                            *)
(***************************************************************************)

\* s.toLowerCase() for the letters the status cells use.
ToLowerCase(t) ==
    [i \in 1..Len(t) |->
       CASE t[i] = "C" -> "c" [] t[i] = "F" -> "f" [] t[i] = "S" -> "s"
         [] t[i] = "U" -> "u" [] t[i] = "P" -> "p" [] OTHER -> t[i]]

\* t.includes(w)
Includes(t, w) ==
    \E i \in 1..(Len(t) - Len(w) + 1) : SubSeq(t, i, i + Len(w) - 1) = w

\* const validStatus = ["success", "paid", "complete"]
ValidStatus ==
    {<<"s", "u", "c", "c", "e", "s", "s">>, <<"p", "a", "i", "d">>,
     <<"c", "o", "m", "p", "l", "e", "t", "e">>}

\* validStatus.some((word) => receipt.status.toLowerCase().includes(word))
StatusOk(status) == \E w \in ValidStatus : Includes(ToLowerCase(status), w)

\* The text of the cell after "Transaction Status"; empty without that cell.
StatusCells ==
    {<<>>, <<"C", "o", "m", "p", "l", "e", "t", "e", "d">>, <<"F", "a", "i", "l", "e", "d">>,
     <<"U", "n", "p", "a", "i", "d">>}

\* A receipt page as the two verifiers see it: whether the GET returned it,
\* whether it contains "telebirr", whether a table row with three cells has
\* the requested reference, another invoice number or does not exist, the
\* status cell, the amount text (empty when neither a cell nor the pattern
\* after "Amount" yields one), and whether the row's date builds a valid Date.
TelebirrPages ==
    [fetched : BOOLEAN, marker : BOOLEAN, invoice : {"none", "other", "requested"},
     status : StatusCells,
     amount : {<<"5", "0", ".", "0", "0">>, <<"0", ".", "0", "0">>, <<"N", "/", "A">>, <<>>},
     dateOk : BOOLEAN]

TelebirrVerifiers == {"verifyTelebirr", "part_013.verifyTelebirr"}

\* telebirr.verifier.ts, fetchTelebirrReceiptHtml, parseTelebirrReceipt (the
\* second version) and verifyTelebirr: the page must contain "telebirr" and
\* an amount above 0; the reference falls back to the requested one.
VerifyTelebirrOnPage(page) ==
    LET amount == ParseFloat(KeepDigitsAndDots(page.amount))
    IN  IF ~page.fetched \/ ~page.marker \/ page.amount = <<>> THEN Rejected
        ELSE IF FalsyNumber(amount) THEN Rejected
        ELSE amount

\* part_013, TelebirrVerifier.verify with parseReceipt and validateReceipt,
\* and verifyTelebirr.
Part013VerifyTelebirrOnPage(page) ==
    LET amount == ParseFloat(KeepDigitsAndDots(page.amount))
    IN  IF ~page.fetched THEN Rejected
        ELSE IF page.invoice # "requested" \/ page.amount = <<>> \/ page.status = <<>>
        THEN Rejected
        ELSE IF amount = NaN \/ ~page.dateOk THEN Rejected
        ELSE IF FalsyNumber(amount) \/ ~StatusOk(page.status) THEN Rejected
        ELSE amount

\* A parser is handed the text that follows its label in a receipt, a
\* Telebirr verifier the receipt page.
ParseInit ==
    /\ Idle
    /\ calls = NoCalls
    /\ \/ \E f \in AmountParsers, t \in AmountTexts :
            parse = [fn |-> f, text |-> t, value |-> NotParsed]
       \/ \E f \in DateParsers, t \in DateTexts :
            parse = [fn |-> f, text |-> t, value |-> NotParsed]
       \/ \E f \in TelebirrVerifiers, t \in TelebirrPages :
            parse = [fn |-> f, text |-> t, value |-> NotParsed]

\* The parser runs on the text and yields v.
Yield(v) ==
    /\ parse.value = NotParsed
    /\ parse' = [parse EXCEPT !.value = v]
    /\ UNCHANGED callVars
    /\ UNCHANGED calls

ParseMpesaPdfTextAmount ==
    /\ parse.fn = "parseMpesaPdfText.amount"
    /\ Yield(MpesaSettledAmount(parse.text))

ExtractAmount ==
    /\ parse.fn = "extractAmount"
    /\ Yield(DashenExtractAmount(parse.text))

ParseSlipAmount ==
    /\ parse.fn = "parseSlip.amount"
    /\ Yield(SlipAmount(parse.text))

ParseTelebirrReceiptAmount ==
    /\ parse.fn = "parseTelebirrReceipt.amount"
    /\ Yield(TelebirrPaidAmount(parse.text))

ExtractWithRegexAmount ==
    /\ parse.fn = "extractWithRegex.amount"
    /\ Yield(TelebirrRegexAmount(parse.text))

VerifyAbyssiniaTransferredAmount ==
    /\ parse.fn = "verifyAbyssinia.transferredAmount"
    /\ Yield(AbyssiniaApiAmount(parse.text))

Part007VerifyAbyssiniaAmount ==
    /\ parse.fn = "part_007.transferredAmount"
    /\ Yield(Part007TransferredAmount(parse.text))

Part010ParseMpesaPdfTextAmount ==
    /\ parse.fn = "part_010.parseMpesaPdfText.amount"
    /\ Yield(Part010SettledAmount(parse.text))

ParseTransactionDate ==
    /\ parse.fn = "parseTransactionDate"
    /\ Yield(Part006ParseTransactionDate(parse.text))

Part005TransactionDate ==
    /\ parse.fn = "part_005.transactionDate"
    /\ Yield(Part005SplitDate(parse.text))

VerifyTelebirrPage ==
    /\ parse.fn = "verifyTelebirr"
    /\ Yield(VerifyTelebirrOnPage(parse.text))

Part013VerifyTelebirrPage ==
    /\ parse.fn = "part_013.verifyTelebirr"
    /\ Yield(Part013VerifyTelebirrOnPage(parse.text))

ParseNext ==
    \/ VerifyTelebirrPage
    \/ Part013VerifyTelebirrPage
    \/ ParseMpesaPdfTextAmount
    \/ ExtractAmount
    \/ ParseSlipAmount
    \/ ParseTelebirrReceiptAmount
    \/ ExtractWithRegexAmount
    \/ VerifyAbyssiniaTransferredAmount
    \/ Part007VerifyAbyssiniaAmount
    \/ Part010ParseMpesaPdfTextAmount
    \/ ParseTransactionDate
    \/ Part005TransactionDate

ParseSpec == ParseInit /\ [][ParseNext]_vars

(***************************************************************************)
(* Concurrent acquisitions: fetchMpesaPdf and fetchCBEReceiptPdf           *)
(***************************************************************************)

\* The acquisition calls that run at the same time.
CallIds == {1, 2}

\* What the outside world does to one call: the launch or the navigation
\* fails, the page never emits a PDF response, the download of the emitted
\* URL fails, or the PDF is downloaded.
CallOutcomes == {"launch throws", "goto throws", "no pdf", "get throws", "pdf"}

CallKinds == {"fetchMpesaPdf", "fetchCBEReceiptPdf"}

\* response.url() of the PDF response emitted on the page of call i.
NoUrl == [page |-> 0]

UrlOnPage(i) == [page |-> i]

\* What a call returns or throws.
Pending == [status |-> "pending", url |-> NoUrl, error |-> ""]

Threw(msg) == [status |-> "throws", url |-> NoUrl, error |-> msg]

BufferOf(u) == [status |-> "buffer", url |-> u, error |-> ""]

\* A single variable pdfUrl declared at module level, shared by every call.
PdfUrlCellShared(i) == 1

\* `let pdfUrl: string | null = null` is a local of the call: the listener
\* closure of call i and the code after the wait use the cell of call i.
PdfUrlCell(i) == i

FreshCall(k, o) ==
    [kind |-> k, outcome |-> o, pc |-> "start", browser |-> 0, open |-> FALSE,
     emitted |-> FALSE, out |-> Pending]

ConcurrentInit ==
    /\ Idle
    /\ parse = NoParse
    /\ \E k \in [CallIds -> CallKinds], o \in [CallIds -> CallOutcomes] :
         calls = [proc |-> [i \in CallIds |-> FreshCall(k[i], o[i])],
                  cell |-> [i \in CallIds |-> NoUrl],
                  sessions |-> 0]

\* The page of call i will still emit its PDF response.
AwaitingResponse(i) ==
    calls.proc[i].outcome \in {"get throws", "pdf"} /\ ~calls.proc[i].emitted

\* The declaration of pdfUrl and puppeteer.launch: every launch starts a new
\* browser process.
CallLaunch(i) ==
    /\ calls.proc[i].pc = "start"
    /\ IF calls.proc[i].outcome = "launch throws"
       THEN calls' = [calls EXCEPT !.cell[PdfUrlCell(i)] = NoUrl,
                                   !.proc[i].pc = "done",
                                   !.proc[i].out = Threw("launch")]
       ELSE calls' = [calls EXCEPT !.cell[PdfUrlCell(i)] = NoUrl,
                                   !.sessions = @ + 1,
                                   !.proc[i].browser = calls.sessions + 1,
                                   !.proc[i].open = TRUE,
                                   !.proc[i].pc = "goto"]
    /\ UNCHANGED callVars
    /\ UNCHANGED parse

\* A listener that is registered only once page.goto has resolved.
ListenerActiveAfterNavigation(p) == p.pc = "wait"

\* page.on("response", ...) runs before page.goto and nothing removes the
\* listener: it is active while the navigation runs and during the wait
\* that follows, until the browser is closed.
ListenerActive(p) == p.pc \in {"navigating", "wait"}

\* page.on("response", ...) and the start of page.goto.
CallNavigate(i) ==
    /\ calls.proc[i].pc = "goto"
    /\ calls' = [calls EXCEPT !.proc[i].pc = "navigating"]
    /\ UNCHANGED callVars
    /\ UNCHANGED parse

\* page.goto resolves or throws.  fetchCBEReceiptPdf closes the browser in a
\* finally, fetchMpesaPdf does not.
CallGoto(i) ==
    /\ calls.proc[i].pc = "navigating"
    /\ IF calls.proc[i].outcome = "goto throws"
       THEN calls' = [calls EXCEPT !.proc[i].pc = "done",
                                   !.proc[i].out = Threw("goto"),
                                   !.proc[i].open = (calls.proc[i].kind = "fetchMpesaPdf")]
       ELSE calls' = [calls EXCEPT !.proc[i].pc = "wait"]
    /\ UNCHANGED callVars
    /\ UNCHANGED parse

\* The page of call i emits its PDF response, during the navigation or
\* during the wait; an active listener runs: pdfUrl = response.url().
CallResponse(i) ==
    /\ calls.proc[i].pc \in {"navigating", "wait"}
    /\ calls.proc[i].open
    /\ AwaitingResponse(i)
    /\ calls' = [calls EXCEPT !.cell[PdfUrlCell(i)] =
                                  IF ListenerActive(calls.proc[i]) THEN UrlOnPage(i) ELSE @,
                              !.proc[i].emitted = TRUE]
    /\ UNCHANGED callVars
    /\ UNCHANGED parse

\* fetchMpesaPdf after the polling loop: browser.close() and the check of
\* pdfUrl.
CallMpesaPollEnd(i) ==
    /\ calls.proc[i].kind = "fetchMpesaPdf"
    /\ calls.proc[i].pc = "wait"
    /\ calls.cell[PdfUrlCell(i)] # NoUrl \/ ~AwaitingResponse(i)
    /\ IF calls.cell[PdfUrlCell(i)] = NoUrl
       THEN calls' = [calls EXCEPT !.proc[i].pc = "done",
                                   !.proc[i].open = FALSE,
                                   !.proc[i].out = Threw("PDF not generated from M-PESA page")]
       ELSE calls' = [calls EXCEPT !.proc[i].pc = "get",
                                   !.proc[i].open = FALSE]
    /\ UNCHANGED callVars
    /\ UNCHANGED parse

\* axios.get(pdfUrl) of fetchMpesaPdf.
CallMpesaGet(i) ==
    /\ calls.proc[i].pc = "get"
    /\ IF calls.proc[i].outcome = "get throws"
       THEN calls' = [calls EXCEPT !.proc[i].pc = "done", !.proc[i].out = Threw("get")]
       ELSE calls' = [calls EXCEPT !.proc[i].pc = "done",
                                   !.proc[i].out = BufferOf(calls.cell[PdfUrlCell(i)])]
    /\ UNCHANGED callVars
    /\ UNCHANGED parse

\* fetchCBEReceiptPdf after the 5 s sleep: the checks of pdfResponse and
\* pdfUrl, the download, and the finally that closes the browser.
CallCbeCheck(i) ==
    /\ calls.proc[i].kind = "fetchCBEReceiptPdf"
    /\ calls.proc[i].pc = "wait"
    /\ ~AwaitingResponse(i)
    /\ calls' = [calls EXCEPT
                   !.proc[i].pc = "done",
                   !.proc[i].open = FALSE,
                   !.proc[i].out =
                       IF Falsy(pdfResponse) \/ calls.cell[PdfUrlCell(i)] = NoUrl
                       THEN Threw(CBENotAccessible)
                       ELSE IF calls.proc[i].outcome = "get throws" THEN Threw("get")
                       ELSE BufferOf(calls.cell[PdfUrlCell(i)])]
    /\ UNCHANGED callVars
    /\ UNCHANGED parse

ConcurrentNext ==
    \/ \E i \in CallIds : CallLaunch(i)
    \/ \E i \in CallIds : CallNavigate(i)
    \/ \E i \in CallIds : CallGoto(i)
    \/ \E i \in CallIds : CallResponse(i)
    \/ \E i \in CallIds : CallMpesaPollEnd(i)
    \/ \E i \in CallIds : CallMpesaGet(i)
    \/ \E i \in CallIds : CallCbeCheck(i)

ConcurrentSpec == ConcurrentInit /\ [][ConcurrentNext]_vars

\* What call i returns or throws when it runs alone.
Alone(i) ==
    LET o == calls.proc[i].outcome
    IN  CASE o = "launch throws" -> Threw("launch")
          [] o = "goto throws" -> Threw("goto")
          [] calls.proc[i].kind = "fetchCBEReceiptPdf" -> Threw(CBENotAccessible)
          [] o = "no pdf" -> Threw("PDF not generated from M-PESA page")
          [] o = "get throws" -> Threw("get")
          [] OTHER -> BufferOf(UrlOnPage(i))

(***************************************************************************)
(* Properties                                                              *)
(***************************************************************************)

\* The stage st ran during the call.
Ran(st) == \E i \in DOMAIN trace : trace[i] = st

Done == pc = "done"

\* A request below the provider's minimum input contract: neither a reference
\* nor a file; CBE by reference without an account suffix; ABYSSINIA without
\* an account suffix.
ContractViolated(b, p) ==
    \/ Falsy(p.reference) /\ ~HasFile(p)
    \/ b = "CBE" /\ ~HasFile(p) /\ Falsy(p.accountSuffix)
    \/ b = "ABYSSINIA" /\ Falsy(p.accountSuffix)

\* The messages with which the service, the dispatcher and the verifiers they
\* call report a missing input.
MissingInputErrors ==
    {"Provide PDF file or reference with account suffix",
     "Provide transaction reference or receipt file",
     "Account suffix is required for Abyssinia",
     "Reference is required for Telebirr",
     "Reference is required for Dashen",
     "Reference or file is required for MPESA",
     "No PDF or reference provided"}

\* C1: a request to verifyReceipt or verifyByBank that violates its provider's
\* minimum input contract never launches a browser and never sends an HTTP
\* request, and it returns success: false with a missing-input message.
C1_MissingInputRejected ==
    (entry \in PipelineEntries /\ bank \in BankType /\ ContractViolated(bank, payload))
        => /\ launches = 0
           /\ httpRequests = 0
           /\ ~thrown
           /\ Done => (~result.success /\ result.error \in MissingInputErrors)

\* A CBE request by reference without a suffix, for which verifyByBank has no
\* check of its own, was rejected by verifyCBE.
C1_Witness ==
    /\ Done
    /\ entry = "verifyByBank"
    /\ bank = "CBE"
    /\ Truthy(payload.reference)
    /\ Falsy(payload.accountSuffix)
    /\ ~HasFile(payload)
    /\ result.error = "No PDF or reference provided"
    /\ launches = 0

\* C2: a success is produced only from a document acquired from the provider
\* during the request: the acquisition stage ran, and the parsed document is
\* the provider's, never the uploaded file.
C2_SuccessOnlyFromProviderDocument ==
    (Done /\ result.success) => (Ran("acquire") /\ doc.src = "provider")

\* C3: when a call is over, the browser it launched is closed.
C3_BrowserClosedOnEveryExit == Done => browser # "open"

\* C4: when the request carries a reference and a file, the file is not
\* searched for a reference and the acquisition uses the caller's reference.
C4_ExplicitReferenceWins ==
    (Truthy(payload.reference) /\ HasFile(payload))
        => /\ ~fileInspected
           /\ acqRef # None => acqRef = payload.reference

\* The messages that report a reference that could not be recovered from the
\* uploaded file.
ReferenceNotFoundErrors ==
    {"Transaction reference not found in file",
     "Transaction reference not found in uploaded file",
     "Reference not found in uploaded PDF",
     "Reference not found in uploaded image",
     "Reference not found"}

\* C5: when no reference was supplied and the text of the uploaded file has
\* no match of the provider's reference pattern, the request ends with
\* success: false and a reference-not-found message, and no browser launch or
\* HTTP request was made.
C5_ReferenceNotFoundIsTerminal ==
    (Done /\ Falsy(payload.reference) /\ fileInspected
          /\ FileReadable(FileOf(payload)) /\ Falsy(FileRef(FileOf(payload))))
        => /\ ~result.success
           /\ result.error \in ReferenceNotFoundErrors
           /\ launches = 0
           /\ httpRequests = 0

\* C6: a success carries the reference and the amount extracted from the
\* provider's document.
C6_SuccessHasMandatoryFields ==
    (Done /\ result.success)
        => (result.data.reference = "doc" /\ result.data.amount = "doc")

\* The mandatory fields of the parser that reported incomplete fields with
\* the message msg.
MandatoryFor(msg) ==
    CASE msg = CBEFieldsIncomplete -> CBEMandatory
      [] msg = Part012LegacyFieldsIncomplete -> CBEMandatory
      [] msg = "Could not extract: " -> Part012Mandatory
      [] OTHER -> Part005PageMandatory

FieldsIncompleteErrors ==
    {CBEFieldsIncomplete, Part012LegacyFieldsIncomplete, "Could not extract: ",
     "Could not extract essential fields: "}

\* C7: a failure for missing mandatory fields names exactly the mandatory
\* fields the parsed document lacks.
C7_ErrorNamesMissingFields ==
    (Done /\ ~result.success /\ result.error \in FieldsIncompleteErrors)
        => result.missing = MandatoryFor(result.error) \ doc.labels

\* C8: no exception leaves a verification call.
C8_NoExceptionPropagates == ~thrown

\* The position of a stage in the pipeline.
Rank(st) ==
    CASE st = "resolve" -> 1
      [] st = "validate" -> 2
      [] st = "acquire" -> 3
      [] st = "extract" -> 4
      [] st = "fields" -> 5
      [] st = "normalize" -> 6
      [] OTHER -> 7

\* An error ends the call: it is the last entry of the trace, and the result
\* is not a success.
TerminalOnError ==
    /\ \A i \in DOMAIN trace : trace[i] = "error" => i = Len(trace)
    /\ (Done /\ Ran("error")) => ~result.success

\* C9 as stated: the stages run in the order resolution, validation,
\* acquisition, text extraction, field extraction, normalization, and an
\* error ends the call.
C9_FixedStageOrder ==
    /\ \A i, j \in DOMAIN trace : i < j => Rank(trace[i]) <= Rank(trace[j])
    /\ TerminalOnError

\* C9: input validation runs before and after the optional reference
\* resolution and always before the acquisition; the other stages run once
\* each in the order resolution, acquisition, text extraction, field
\* extraction, normalization; an error ends the call, which then is no success.
C9_StageOrderWithEarlyValidation ==
    /\ \A i, j \in DOMAIN trace :
         (i < j /\ trace[i] # "validate" /\ trace[j] # "validate")
             => Rank(trace[i]) < Rank(trace[j])
    /\ \A i, j \in DOMAIN trace :
         (trace[i] = "validate" /\ Rank(trace[j]) \in 3..6) => i < j
    /\ TerminalOnError

\* verifyCBE of part_012 checked the suffix, recovered the reference from the
\* upload, checked it, and went through every later stage to a success.
C9_Witness ==
    /\ Done
    /\ entry = "part_012.verifyCBE"
    /\ trace = <<"validate", "resolve", "validate", "acquire", "extract", "fields",
                 "normalize">>
    /\ result.success

\* The pc values at which an acquisition waits for the provider's document.
Waiting == pc \in {"fetchMpesaPdf.poll", "part_005.fetchSlipPdf.wait"}

\* page.goto(url, {timeout: 60000}): the longest timeout an acquisition sets.
LongestTimeoutMs == 60000

\* C10: a wait for the provider's document never lasts beyond the longest
\* timeout of the acquisitions.
C10_WaitsAreBounded == Waiting => waited <= LongestTimeoutMs

\* The messages with which the service and the dispatcher report a provider
\* code outside BankType.
UnsupportedProviderErrors == {"Unsupported bank", "Unsupported bank: "}

\* C11: a request to verifyReceipt or verifyByBank with a provider code
\* outside BankType never reaches a provider's verifier, launches no browser
\* and sends no HTTP request, and it returns success: false with an
\* unsupported-provider message.
C11_UnsupportedProviderRejected ==
    (entry \in PipelineEntries /\ bank \notin BankType)
        => /\ pc \in PipelineEntries \cup {"done"}
           /\ launches = 0
           /\ httpRequests = 0
           /\ ~thrown
           /\ ~Ran("acquire")
           /\ Done => (~result.success /\ result.error \in UnsupportedProviderErrors)

\* verifyByBank was called with a code outside the enum, with a reference and
\* a suffix, and returned from the default branch of its switch.
C11_Witness ==
    /\ Done
    /\ entry = "verifyByBank"
    /\ bank \notin BankType
    /\ Truthy(payload.reference)
    /\ Truthy(payload.accountSuffix)
    /\ result.error = "Unsupported bank: "

\* C12: a result carries no amount of 0 for a document in which the amount
\* label did not match, whether the result is a success or a failure.
C12_UnmatchedAmountNeverZero ==
    (Done /\ "amount" \notin doc.labels) => result.data.amount # "zero"

\* C13: a returned result is either a success that carries every canonical
\* data field and no error, or a failure that carries a non-empty error
\* message and no data field.
C13_ResultHasOneOfTwoShapes ==
    (Done /\ ~thrown)
        => IF result.success
           THEN result.error = None /\ \A f \in Fields : result.data[f] # "absent"
           ELSE Truthy(result.error) /\ result.data = NoData

\* A parser has run on the text it was handed.
Parsed == parse.value # NotParsed

\* C14: every amount parser reads a printed amount as the number it denotes,
\* with or without thousands separators: "1,234.50" and "1234.50" both give
\* 1234.50.
C14_SeparatorsDoNotChangeAmount ==
    (Parsed /\ parse.fn \in AmountParsers /\ parse.text.label
            /\ parse.text.token \in PrintedAmounts)
        => parse.value = ParseFloat(StripCommas(parse.text.token))

\* C15: a date printed as day/month/2-digit-year hour:minute is parsed into
\* the date with that day, that month, the year 2000 + yy and that time.
C15_DayMonthYearDate ==
    (Parsed /\ parse.fn \in DateParsers /\ parse.text.label)
        => \A d \in PrintedDays, mo \in PrintedMonths, yy \in PrintedYears,
              h \in PrintedHours, mi \in PrintedMinutes :
             parse.text.token = PrintedDate(d, mo, yy, h, mi)
                 => parse.value = DateOf(2000 + yy, mo, d, h, mi)

\* The messages with which the verifiers themselves report a missing input.
VerifierMissingInputErrors ==
    {"Reference or file is required",
     "Transaction reference or file is required",
     "Reference and account suffix are required",
     "Transaction number is required",
     "Reference is required",
     "accountSuffix is required",
     "Account suffix is required",
     "Account suffix is required if no filePath provided",
     "Transaction reference is required",
     "fileType must be specified"}

\* The text extraction of the uploaded file threw while the verifier was
\* searching it for a reference.
UploadExtractionFailed ==
    /\ Done
    /\ fileInspected
    /\ HasFile(payload)
    /\ FileExists(FileOf(payload))
    /\ ~FileReadable(FileOf(payload))

\* C16: no exception leaves a verification call, and a text extraction that
\* throws on the uploaded file ends the call with a failure that is reported
\* neither as a missing input nor as a reference that was not found.
C16_ExceptionsBecomeErrorKinds ==
    /\ ~thrown
    /\ UploadExtractionFailed
           => /\ ~result.success
              /\ result.error \notin MissingInputErrors \cup VerifierMissingInputErrors
                                     \cup ReferenceNotFoundErrors

\* C17: under every interleaving of the concurrent acquisition calls, two
\* calls never use the same browser session, the URL a call has captured or
\* downloaded was emitted on its own page, and a finished call returns what it
\* returns when it runs alone.
C17_ConcurrentCallsShareNoState ==
    /\ \A i, j \in DOMAIN calls.proc :
         (i # j /\ calls.proc[i].browser # 0) => calls.proc[i].browser # calls.proc[j].browser
    /\ \A i \in DOMAIN calls.proc :
         /\ calls.cell[i] \in {NoUrl, UrlOnPage(i)}
         /\ calls.proc[i].out.url \in {NoUrl, UrlOnPage(i)}
         /\ calls.proc[i].pc = "done" => calls.proc[i].out = Alone(i)

\* Call 2 launched its browser first and is still waiting with the URL its
\* page emitted, while call 1, launched after it, has already downloaded the
\* PDF of its own page.
C17_Witness ==
    /\ calls.proc[2].browser = 1
    /\ calls.proc[2].pc = "wait"
    /\ calls.proc[2].emitted
    /\ calls.proc[2].kind = "fetchMpesaPdf"
    /\ calls.proc[1].browser = 2
    /\ calls.proc[1].pc = "done"
    /\ calls.proc[1].out = BufferOf(UrlOnPage(1))

\* C18: safeGoto navigates at most 3 times; an attempt is made only after
\* every earlier attempt failed; a failed attempt before the third is
\* followed by another attempt; the first successful navigation ends the loop
\* and the call goes on to the download button; when the third attempt fails
\* the call ends with that attempt's error message.
C18_SafeGotoRetriesThenRaises ==
    entry = "logger.verifyAbyssinia"
        => LET n == Len(navigations)
           IN  /\ n <= 3
               /\ \A k \in 1..(n - 1) : ~navigations[k].ok
               /\ (n > 0 /\ navigations[n].ok) => pc # "logger.safeGoto"
               /\ (n > 0 /\ n < 3 /\ ~navigations[n].ok) => pc = "logger.safeGoto"
               /\ (n = 3 /\ ~navigations[n].ok)
                      => (Done /\ ~thrown /\ result = Fail(navigations[n].message))
               /\ pc \in {"logger.clickDownloadButton", "logger.waitForFunction"}
                      => (n > 0 /\ navigations[n].ok)

\* Three navigations failed with different messages and the call returned the
\* message of the third.
C18_Witness ==
    /\ Done
    /\ entry = "logger.verifyAbyssinia"
    /\ navigations = <<NavigationFailed(""), NavigationFailed(""),
                       NavigationFailed("net::ERR_FAILED")>>
    /\ result = Fail("net::ERR_FAILED")
    /\ browser = "closed"

\* The messages of the detection timeouts: the M-PESA PDF URL, the download
\* button, the captured PDF.
DetectionTimeoutErrors ==
    {"PDF not generated from M-PESA page", "Download PDF button not found within timeout",
     "Waiting failed: 20000ms exceeded"}

\* C19: once the download button or the captured document was not detected
\* within its timeout, the call is over: it returned success: false with the
\* timeout's message, nothing was thrown, one browser was launched, and no
\* navigation or detection step follows.
C19_DetectionTimeoutNotRetried ==
    timedOut
        => /\ Done
           /\ ~thrown
           /\ ~result.success
           /\ result.error \in DetectionTimeoutErrors
           /\ launches = 1
           /\ browser = "closed"
           /\ Len(navigations) <= 1 \/ ~navigations[Len(navigations) - 1].ok

\* clickDownloadButton polled for 20000 ms after the second navigation
\* succeeded and did not find the button.
C19_Witness ==
    /\ timedOut
    /\ Done
    /\ entry = "logger.verifyAbyssinia"
    /\ navigations = <<NavigationFailed("net::ERR_FAILED"), Navigated>>
    /\ waited = ClickTimeoutMs
    /\ result = Fail("Download PDF button not found within timeout")

\* The token after the amount label holds no digit: no number can be read
\* from it.
TokenDoesNotParse == ParseFloat(KeepDigitsAndDots(parse.text.token)) = NaN

\* C20: no amount parser yields NaN, and for a token from which no finite
\* number can be read the amount is absent (null, or the receipt is rejected),
\* never 0.
C20_UnparsableAmountIsAbsent ==
    (Parsed /\ parse.fn \in AmountParsers)
        => /\ parse.value # NaN
           /\ (parse.text.label /\ TokenDoesNotParse) => parse.value \in {Null, Rejected}

\* C21: the date of a successful result is null or a valid instant, never an
\* Invalid Date built from a date token that did not parse.
C21_SuccessDateIsNullOrValid ==
    (Done /\ ~thrown /\ result.success) => result.data.date # "invalid"

\* C22: a field whose label the acquired document does not carry is never
\* reported with a substituted value: no placeholder name or account, and no
\* current time for the date.
C22_MissingFieldNeverDefaulted ==
    (Done /\ ~thrown)
        => \A f \in Fields \cap DOMAIN result.data :
             f \notin doc.labels => result.data[f] \notin {"placeholder", "now"}

\* C23: in a success of the Dashen and M-PESA parsers every field is decided
\* by its own rule alone: null when its label is not in the parsed document,
\* the document's value when it is, whatever the other labels do.
C23_RulesApplyIndependently ==
    (Done /\ ~thrown /\ result.success /\ bank \in {"DASHEN", "MPESA"})
        => \A f \in Fields : result.data[f] = Value(doc, f)

\* The messages with which an acquisition reports that the page gave no
\* document.
DocumentNotAccessibleErrors == {CBENotAccessible, "Receipt PDF not found on page."}

\* C24: a CBE acquisition whose listener captured the URL of an
\* application/pdf response downloads that URL and does not end with a
\* document-not-accessible error.
C24_CapturedPdfIsDownloaded ==
    (Done /\ bank = "CBE" /\ Truthy(pdfUrl))
        => /\ httpRequests >= 1
           /\ result.error \notin DocumentNotAccessibleErrors

\* C25: a TELEBIRR or DASHEN request with a reference, or an ABYSSINIA
\* request with a reference and an account suffix, and no file, that
\* verifyReceipt accepted reaches the acquisition with that reference and is
\* not rejected for a missing input.
C25_ValidatedReferenceReachesAcquisition ==
    (Done /\ entry = "verifyReceipt" /\ bank \in {"TELEBIRR", "DASHEN", "ABYSSINIA"}
          /\ Truthy(payload.reference) /\ ~HasFile(payload)
          /\ (bank = "ABYSSINIA" => Truthy(payload.accountSuffix)))
        => /\ Ran("acquire")
           /\ acqRef = payload.reference
           /\ result.error \notin MissingInputErrors \cup VerifierMissingInputErrors

\* C26: a request with an uploaded file that the controller accepted and
\* handed to the service is not rejected for a missing input: neither the
\* service nor the dispatcher nor the verifier reports that no file or
\* reference was given.
C26_UploadedFileReachesVerifier ==
    (Done /\ entry = "verify" /\ Truthy(payload.pdfBuffer))
        => result.error \notin MissingInputErrors \cup VerifierMissingInputErrors

C28_NoPdfResponseIsMissed ==
    \A i \in DOMAIN calls.proc :
        calls.proc[i].emitted => calls.cell[PdfUrlCell(i)] = UrlOnPage(i)

\* The page of call 1 emitted its PDF response while page.goto was still
\* running, and the listener captured it.
C28_Witness ==
    /\ calls.proc[1].pc = "navigating"
    /\ calls.proc[1].emitted
    /\ calls.cell[PdfUrlCell(1)] = UrlOnPage(1)

\* C29: a Telebirr verifier returns success: true only for a fetched page
\* with a table row whose invoice number is the requested reference, a
\* status cell that contains success, paid or complete, and an amount that is
\* a number above 0.
C29_TelebirrSuccessNeedsMatchingPaidRow ==
    (Parsed /\ parse.fn \in TelebirrVerifiers /\ parse.value # Rejected)
        => /\ parse.text.fetched
           /\ parse.text.invoice = "requested"
           /\ StatusOk(parse.text.status)
           /\ parse.value.kind = "number"
           /\ parse.value.cents > 0

====
